---------------------------- MODULE Spec2Model ----------------------------
(***************************************************************************)
(* Model of the UniBot question-answering backend.                         *)
(*                                                                         *)
(*   AgentProcessor.answer_question  (src/agent_processor.py 528-768)      *)
(*   AgentProcessor.setup_agent      (src/agent_processor.py 180-487)      *)
(*   pdf_search_tool                 (src/agent_processor.py 251-457)      *)
(*                                                                         *)
(* Text is modelled as a sequence of tokens.  A token is one character     *)
(* ("{", "}", "\", ",", " ") or an atom standing for a run of characters   *)
(* none of which is special to the code that scans it.  Numbers with one   *)
(* decimal are kept in tenths (0.7 is 7).                                  *)
(***************************************************************************)
EXTENDS Integers, Sequences, FiniteSets, TLC

(***************************************************************************)
(* Python values handed in as arguments: a string (its tokens), None, or   *)
(* some other truthy object (a number, a list).                            *)
(***************************************************************************)
PyStr(toks) == [type |-> "str", val |-> toks]
PyNone == [type |-> "none", val |-> <<>>]
PyObj == [type |-> "obj", val |-> <<"5">>]

\* Python truthiness of an argument: "" and None are falsy.
Truthy(v) == IF v.type = "str" THEN Len(v.val) > 0 ELSE v.type = "obj"

\* isinstance(v, str)
IsStr(v) == v.type = "str"

RECURSIVE LStrip(_)
\* str.lstrip(): leading whitespace removed.
LStrip(s) == IF s = <<>> THEN <<>>
             ELSE IF Head(s) = " " THEN LStrip(Tail(s)) ELSE s

RECURSIVE RStrip(_)
\* str.rstrip(): trailing whitespace removed.
RStrip(s) == IF s = <<>> THEN <<>>
             ELSE IF s[Len(s)] = " " THEN RStrip(SubSeq(s, 1, Len(s) - 1)) ELSE s

\* str.strip()
Strip(s) == RStrip(LStrip(s))

\* The validation without its whitespace test.
InvalidTextNoStrip(v) == ~Truthy(v) \/ ~IsStr(v)

\* not v or not isinstance(v, str) or not v.strip()
InvalidText(v) == \/ ~Truthy(v)
                  \/ ~IsStr(v)
                  \/ Strip(v.val) = <<>>

(***************************************************************************)
(* JSON values as json.loads returns them, all of one shape: t is the      *)
(* type, n the number in tenths (a bool's 0/1), l the items of a list or   *)
(* the text of a string.  "huge" is an integer too large for float().      *)
(***************************************************************************)
JAbsent == [t |-> "absent", n |-> 0, l |-> <<>>]
JNull == [t |-> "null", n |-> 0, l |-> <<>>]
JBool(b) == [t |-> "bool", n |-> IF b THEN 1 ELSE 0, l |-> <<>>]
JNum(n) == [t |-> "num", n |-> n, l |-> <<>>]
JHuge == [t |-> "huge", n |-> 0, l |-> <<>>]
JStr(s) == [t |-> "str", n |-> 0, l |-> s]
JList(l) == [t |-> "list", n |-> 0, l |-> l]

\* The keys of the record the model is asked to produce.
Keys == {"answer", "document_ids", "sources", "confidence_score",
         "context_used", "additional_info", "pages"}

\* The seven fields of StructuredResponse.
SevenFields == {"answer", "document_ids", "sources", "confidence_score",
                "context_used", "additional_info", "pages"}


(***************************************************************************)
(* The raw text of the agent (result_str) and the record in it.            *)
(*                                                                         *)
(* Tokens:  "x"    ordinary text                                           *)
(*          "{" "}" the braces                                             *)
(*          "KV"   the key/value pairs of a JSON object (held in fields)   *)
(*          "SI"   the text [SYSTEM_INFO]                                  *)
(*          "FP"   the text " FOUND_PAGES: "                               *)
(*          "[4]" "[7]"  a bracketed page array                            *)
(*          "BS"   a backslash                                             *)
(*          "O"    a letter of SYSTEM_INFO                                 *)
(*          "Dot"  one of the characters . * ?                             *)
(***************************************************************************)

\* The page array a bracketed token spells.
PageArrays == [t \in {"[4]", "[7]"} |-> IF t = "[4]" THEN <<4>> ELSE <<7>>]

RECURSIVE FindFrom(_, _, _)
\* Index (0-based, as Python counts) of the first tok at or after i, or -1.
FindFrom(s, tok, i) == IF i >= Len(s) THEN -1
                       ELSE IF s[i + 1] = tok THEN i
                       ELSE FindFrom(s, tok, i + 1)

\* str.find(tok)
Find(s, tok) == FindFrom(s, tok, 0)

RECURSIVE RFindFrom(_, _, _)
\* Index (0-based) of the last tok at or before i, or -1.
RFindFrom(s, tok, i) == IF i < 0 THEN -1
                        ELSE IF s[i + 1] = tok THEN i
                        ELSE RFindFrom(s, tok, i - 1)

\* str.rfind(tok)
RFind(s, tok) == RFindFrom(s, tok, Len(s) - 1)

\* s[a:b] for a, b >= 0: empty when b <= a.
PySlice(s, a, b) == SubSeq(s, a + 1, IF b > Len(s) THEN Len(s) ELSE b)

\* A dict with no keys: dict.get(k) finds every key absent.
EmptyDict == [k \in Keys |-> JAbsent]

\* json.loads(json_str): the text between the braces must be the pairs of
\* one object (or nothing); anything else is a JSONDecodeError.
JsonLoads(json_str, flds) ==
    IF json_str = <<"{", "}">> THEN [ok |-> TRUE, dict |-> EmptyDict]
    ELSE IF json_str = <<"{", "KV", "}">> THEN [ok |-> TRUE, dict |-> flds]
    ELSE [ok |-> FALSE, dict |-> EmptyDict]

\* dict.get(key, default)
DictGet(d, key, default) == IF d[key] = JAbsent THEN default ELSE d[key]

\* A regular expression without repetition: one set of tokens per position;
\* the group is the positions from gfrom on.
MatchesAt(pat, s, i) == /\ i + Len(pat.classes) - 1 <= Len(s)
                        /\ \A j \in 1..Len(pat.classes) : s[i + j - 1] \in pat.classes[j]

\* re.search(pat, s): the leftmost match, as [found, group].
ReSearch(pat, s) ==
    LET hits == {i \in 1..Len(s) : MatchesAt(pat, s, i)}
    IN IF hits = {} THEN [found |-> FALSE, group |-> <<>>]
       ELSE LET i == CHOOSE h \in hits : \A g \in hits : h <= g
            IN [found |-> TRUE,
                group |-> SubSeq(s, i + pat.gfrom - 1, i + Len(pat.classes) - 1)]

\* The character class [SYSTEM_INFO\\] and the class [.*?\\] of the patterns
\* as they are written in raw strings with doubled backslashes.
ClassSystemInfo == {"O", "BS"}
ClassDotStarQuery == {"Dot", "BS"}

\* r'\[SYSTEM_INFO\] FOUND_PAGES: (\[.*?\])': the marker line as the
\* search tool writes it.
MarkerPatternEscapedOnce ==
    [classes |-> <<{"SI"}, {"FP"}, DOMAIN PageArrays>>, gfrom |-> 3]

\* r'\\[SYSTEM_INFO\\] FOUND_PAGES: (\\[.*?\\])'
\* a backslash, one character of [SYSTEM_INFO\\], " FOUND_PAGES: ", and as
\* the group a backslash and one character of [.*?\\].
MarkerPattern ==
    [classes |-> <<{"BS"}, ClassSystemInfo, {"FP"}, {"BS"}, ClassDotStarQuery>>,
     gfrom |-> 4]

\* r'FOUND_PAGES: (\[.*?\])'
AltMarkerPatternEscapedOnce ==
    [classes |-> <<{"FP"}, DOMAIN PageArrays>>, gfrom |-> 2]

\* r'FOUND_PAGES: (\\[.*?\\])'
AltMarkerPattern ==
    [classes |-> <<{"FP"}, {"BS"}, ClassDotStarQuery>>, gfrom |-> 2]

\* json.loads(match.group(1)) under try/except: the array, or [] when the
\* group is no JSON.
LoadPages(group) == IF Len(group) = 1 /\ group[1] \in DOMAIN PageArrays
                    THEN PageArrays[group[1]]
                    ELSE <<>>

\* The pages scraped from result_str (lines 689-706).
ScrapePages(result_str) ==
    LET match == ReSearch(MarkerPattern, result_str)
        alt_match == ReSearch(AltMarkerPattern, result_str)
    IN IF match.found THEN LoadPages(match.group)
       ELSE IF alt_match.found THEN LoadPages(alt_match.group)
       ELSE <<>>

(***************************************************************************)
(* The records answer_question returns.                                    *)
(***************************************************************************)

\* A dict literal with the seven keys.
Response(answer, document_ids, sources, confidence_score, context_used, additional_info, pages) ==
    [answer |-> answer, document_ids |-> document_ids, sources |-> sources,
     confidence_score |-> confidence_score, context_used |-> context_used,
     additional_info |-> additional_info, pages |-> pages]

\* The record of lines 543-551.
InvalidQuestionResponse ==
    Response(<<"Ungueltige Frage">>, <<>>, <<>>, 0, FALSE,
             JStr(<<"Leere oder ungueltige Frage">>), <<>>)

\* The record of lines 554-562.
InvalidNamespaceResponse ==
    Response(<<"Ungueltiger Namespace">>, <<>>, <<>>, 0, FALSE,
             JStr(<<"Leerer oder ungueltiger Namespace">>), <<>>)

\* The record of the outermost handler, lines 757-768.
ErrorResponse ==
    Response(<<"Fehler beim Beantworten der Frage">>, <<>>, <<>>, 0, FALSE,
             JStr(<<"Fehler aufgetreten">>), <<>>)

\* confidence_score of the three fallbacks (lines 729, 741, 751), in tenths.
FallbackConfidence == 7

\* confidence_score when the parsed one is no number (line 712), in tenths.
DefaultConfidence == 8

\* The fallback of lines 725-733: no JSON structure found.
NoJsonResponse(result_str, has_history) ==
    Response(result_str, <<>>, <<>>, FallbackConfidence, has_history,
             JStr(<<"keine JSON-Struktur gefunden">>), <<>>)

\* The fallback of lines 735-745: json.loads raised JSONDecodeError.
DecodeErrorResponse(result_str, has_history) ==
    Response(result_str, <<>>, <<>>, FallbackConfidence, has_history,
             JStr(<<"JSON-Parsing fehlgeschlagen">>), <<>>)

\* The fallback of lines 746-755: any other exception while parsing.
ParseErrorResponse(result_str, has_history) ==
    Response(result_str, <<>>, <<>>, FallbackConfidence, has_history,
             JStr(<<"Unerwarteter Parsing-Fehler">>), <<>>)

\* str(v) of a parsed value.
PyStrOf(v) == IF v.t = "str" THEN v.l
              ELSE IF v.t = "null" THEN <<"None">>
              ELSE <<"repr">>

\* bool(v) of a parsed value.
PyBool(v) == CASE v.t = "null" -> FALSE
               [] v.t = "bool" -> v.n = 1
               [] v.t = "num" -> v.n # 0
               [] v.t = "huge" -> TRUE
               [] OTHER -> v.l # <<>>

\* isinstance(v, (int, float)): a Python bool is an int.
IsIntOrFloat(v) == v.t \in {"num", "bool", "huge"}

\* float(v) in tenths, for the values float() converts; float() of an
\* integer beyond the float range raises OverflowError.
PyFloat(v) == IF v.t = "bool" THEN 10 * v.n ELSE v.n

\* Whether float(v) raises OverflowError (line 712, caught at line 746).
FloatRaises(v) == v.t = "huge"

\* v if isinstance(v, list) else []
ListOrEmpty(v) == IF v.t = "list" THEN v.l ELSE <<>>

\* float(...) if isinstance(..., (int, float)) else 0.8   (line 712)
ConfidenceOf(parsed_response) ==
    IF IsIntOrFloat(parsed_response["confidence_score"])
    THEN PyFloat(parsed_response["confidence_score"])
    ELSE DefaultConfidence

\* bool(parsed_response.get("context_used", has_history))   (line 713)
ContextUsedOf(parsed_response, has_history) ==
    PyBool(DictGet(parsed_response, "context_used", JBool(has_history)))

\* The dict of lines 708-716.
structured_response(parsed_response, result_str, has_history, pages) ==
    Response(PyStrOf(DictGet(parsed_response, "answer", JStr(result_str))),
             ListOrEmpty(parsed_response["document_ids"]),
             ListOrEmpty(parsed_response["sources"]),
             ConfidenceOf(parsed_response),
             ContextUsedOf(parsed_response, has_history),
             DictGet(parsed_response, "additional_info", JNull),
             pages)

\* json_start != -1 and json_end != -1   (line 679), json_end being
\* rfind('}') + 1.
BracesFound(json_start, json_end) == json_start # -1 /\ json_end # -1

\* Lines 672-755: the record made of the agent's text.
ParseResult(result_str, flds, has_history) ==
    LET json_start == Find(result_str, "{")
        json_end == RFind(result_str, "}") + 1
        loaded == JsonLoads(PySlice(result_str, json_start, json_end), flds)
    IN IF ~BracesFound(json_start, json_end)
       THEN NoJsonResponse(result_str, has_history)
       ELSE IF ~loaded.ok
       THEN DecodeErrorResponse(result_str, has_history)
       ELSE IF FloatRaises(loaded.dict["confidence_score"])
       THEN ParseErrorResponse(result_str, has_history)
       ELSE structured_response(loaded.dict, result_str, has_history,
                                ScrapePages(result_str))

(***************************************************************************)
(* pdf_search_tool (lines 251-457).                                        *)
(*                                                                         *)
(* A fragment is what the retriever hands back:                            *)
(*   attrs        it has the attributes metadata and page_content          *)
(*   meta_is_dict its metadata is a dict                                   *)
(*   document_id, pdf_id   "" when the key is missing                      *)
(*   chunk_id     -1 when missing or no int                                *)
(*   pages        <<>> when missing                                        *)
(*   page_number  0 when missing                                           *)
(*   content      the tokens of page_content                               *)
(*   adjacent     what the adjacency lookup does for it: "both", "next",   *)
(*                "none" (no neighbours found) or "raise"                  *)
(***************************************************************************)

\* The outcomes of compression_retriever.invoke(query).
RetrieverRaises == [kind |-> "raise", docs |-> <<>>]
RetrieverNone == [kind |-> "none", docs |-> <<>>]
RetrieverNonList == [kind |-> "nonlist", docs |-> <<>>]
RetrieverList(docs) == [kind |-> "list", docs |-> docs]

\* What the tool returns: the kind of text, and for a result text its
\* blocks, FOUND_DOCUMENT_IDS, FOUND_PAGES and FILTERED_BY_DOC_IDS; lookups
\* counts the adjacency lookups (line 392) made on the way.
ToolText(kind) ==
    [kind |-> kind, results |-> <<>>, doc_ids |-> {}, pages |-> <<>>,
     filtered_by |-> <<>>, lookups |-> 0]

RECURSIVE SplitFrom(_, _, _)
\* str.split(','): the parts between the commas; cur is the part being read.
SplitFrom(s, cur, i) ==
    IF i > Len(s) THEN <<cur>>
    ELSE IF s[i] = "," THEN <<cur>> \o SplitFrom(s, <<>>, i + 1)
    ELSE SplitFrom(s, Append(cur, s[i]), i + 1)

\* str.split(',')
Split(s) == SplitFrom(s, <<>>, 1)

RECURSIVE StripNonEmpty(_)
\* [doc_id.strip() for doc_id in parts if doc_id.strip()]
StripNonEmpty(parts) ==
    IF parts = <<>> THEN <<>>
    ELSE IF Strip(Head(parts)) = <<>> THEN StripNonEmpty(Tail(parts))
    ELSE <<Strip(Head(parts))>> \o StripNonEmpty(Tail(parts))

RECURSIVE StripAll(_)
\* [doc_id.strip() for doc_id in parts]
StripAll(parts) ==
    IF parts = <<>> THEN <<>> ELSE <<Strip(Head(parts))>> \o StripAll(Tail(parts))

\* The filter that keeps the empty parts between the commas.
target_doc_ids_keep_empty(document_ids) ==
    IF Truthy(document_ids) /\ Strip(document_ids.val) # <<>>
    THEN StripAll(Split(document_ids.val))
    ELSE <<>>

\* Lines 267-269: target_doc_ids; <<>> stands for None as well as for [],
\* which line 293 treats alike.
target_doc_ids(document_ids) ==
    IF Truthy(document_ids) /\ Strip(document_ids.val) # <<>>
    THEN StripNonEmpty(Split(document_ids.val))
    ELSE <<>>

\* doc.metadata.get('document_id', doc.metadata.get('pdf_id', fallback))
MetadataDocId(doc, fallback) ==
    IF doc.document_id # "" THEN doc.document_id
    ELSE IF doc.pdf_id # "" THEN doc.pdf_id
    ELSE fallback

\* Lines 298-304: whether the filter keeps the fragment.
FilterKeeps(doc, targets) ==
    /\ doc.attrs
    /\ doc.meta_is_dict
    /\ \E j \in 1..Len(targets) : targets[j] = <<MetadataDocId(doc, "unknown")>>

RECURSIVE filtered_docs(_, _)
\* Lines 294-308.
filtered_docs(docs, targets) ==
    IF docs = <<>> THEN <<>>
    ELSE IF FilterKeeps(Head(docs), targets)
    THEN <<Head(docs)>> \o filtered_docs(Tail(docs), targets)
    ELSE filtered_docs(Tail(docs), targets)

RECURSIVE SortedSeq(_)
\* sorted(list(S))
SortedSeq(S) == IF S = {} THEN <<>>
                ELSE LET m == CHOOSE x \in S : \A y \in S : x <= y
                     IN <<m>> \o SortedSeq(S \ {m})

\* The elements of a sequence.
Range(s) == {s[j] : j \in 1..Len(s)}

\* f'unknown_{i}'
UnknownId(i) == "unknown_" \o ToString(i)

\* The locals of the loop with a counter that starts at 0.
LoopStartZeroBased ==
    [results |-> <<>>, found_doc_ids |-> {}, used_pages |-> {},
     chunk_counter |-> 0, doc_index_map |-> <<>>, page_number |-> -1,
     lookups |-> 0]

\* The locals of the loop of lines 314-434 before its first pass:
\* page_number is not bound yet (-1).
LoopStart ==
    [results |-> <<>>, found_doc_ids |-> {}, used_pages |-> {},
     chunk_counter |-> 1, doc_index_map |-> <<>>, page_number |-> -1,
     lookups |-> 0]

\* doc_index_map[doc_id] + 1 once doc_id is entered (lines 367-369): the map
\* is kept as the ids in the order they were entered.
DokNumber(map, doc_id) == CHOOSE j \in 1..Len(map) : map[j] = doc_id

\* The sub-blocks of a fragment written without its neighbours.
ChunkPartsMainOnly(doc) == <<"b">>

\* Lines 398-413: the sub-blocks of a fragment whose neighbours were looked
\* up; lines 419-424: only the main hit when the lookup raised.
ChunkParts(doc) ==
    IF doc.chunk_id < 0 \/ doc.adjacent = "raise" THEN <<"b">>
    ELSE (IF doc.adjacent \in {"both", "previous"} THEN <<"a">> ELSE <<>>)
         \o <<"b">>
         \o (IF doc.adjacent \in {"both", "next"} THEN <<"c">> ELSE <<>>)

\* One pass of the loop (lines 320-434) for docs[i + 1].
LoopPass(st, doc, i) ==
    IF ~doc.attrs THEN st
    ELSE
    LET doc_id == IF doc.meta_is_dict THEN MetadataDocId(doc, UnknownId(i))
                  ELSE UnknownId(i)
        pages == IF doc.meta_is_dict THEN doc.pages ELSE <<>>
        \* line 338 binds page_number only in the dict branch
        page_number == IF doc.meta_is_dict THEN doc.page_number ELSE st.page_number
        used == IF doc.meta_is_dict
                THEN st.used_pages \cup Range(doc.pages)
                     \cup (IF doc.page_number # 0 THEN {doc.page_number} ELSE {})
                ELSE st.used_pages
        st1 == [st EXCEPT !.used_pages = used, !.page_number = page_number]
    IN IF Strip(doc.content) = <<>> THEN st1
       ELSE
       LET map == IF doc_id \in Range(st.doc_index_map) THEN st.doc_index_map
                  ELSE Append(st.doc_index_map, doc_id)
           st2 == [st1 EXCEPT !.found_doc_ids = @ \cup {doc_id},
                              !.doc_index_map = map]
           block == [doc_id |-> doc_id,
                     dok |-> DokNumber(map, doc_id),
                     chunk |-> st.chunk_counter,
                     parts |-> ChunkParts(doc),
                     page |-> IF pages # <<>> THEN pages[1]
                              ELSE IF page_number > 0 THEN page_number ELSE 0,
                     pages_str |-> IF pages # <<>> THEN pages
                                   ELSE IF page_number > 0 THEN <<page_number>>
                                   ELSE <<>>]
       IN \* line 375 reads page_number: unbound, it raises and line 433
          \* goes on with the next fragment
          IF pages = <<>> /\ page_number = -1 THEN st2
          ELSE [st2 EXCEPT !.results = Append(@, block),
                           !.chunk_counter = @ + 1,
                           !.lookups = IF doc.chunk_id >= 0 THEN @ + 1 ELSE @]

RECURSIVE LoopFrom(_, _, _)
\* for i, doc in enumerate(docs)
LoopFrom(st, docs, i) ==
    IF i >= Len(docs) THEN st
    ELSE LoopFrom(LoopPass(st, docs[i + 1], i), docs, i + 1)

\* Lines 436-451: the result text made of the loop's locals.
ResultText(st, targets) ==
    IF st.results = <<>>
    THEN [ToolText("KEINE RELEVANTEN INHALTE") EXCEPT !.lookups = st.lookups]
    ELSE [kind |-> "ERGEBNIS", results |-> st.results,
          doc_ids |-> st.found_doc_ids,
          pages |-> SortedSeq(st.used_pages),
          filtered_by |-> targets,
          lookups |-> st.lookups]

\* Lines 279-451: what the tool makes of the retriever's answer.
SearchResult(targets, retrieved) ==
    IF retrieved.kind = "raise" THEN ToolText("FEHLER BEI PINECONE-SUCHE")
    ELSE IF retrieved.kind = "none" THEN ToolText("FEHLER: Pinecone-Antwort ist None")
    ELSE IF retrieved.kind = "nonlist" THEN ToolText("FEHLER: Unerwarteter Response-Typ")
    ELSE IF retrieved.docs = <<>> THEN ToolText("KEINE DOKUMENTE GEFUNDEN")
    ELSE IF targets # <<>> /\ filtered_docs(retrieved.docs, targets) = <<>>
    THEN ToolText("KEINE DOKUMENTE IN GEFILTERTEN IDs")
    ELSE ResultText(LoopFrom(LoopStart,
                             IF targets # <<>>
                             THEN filtered_docs(retrieved.docs, targets)
                             ELSE retrieved.docs, 0),
                    targets)

\* Line 268 calls document_ids.strip(): an AttributeError when document_ids
\* is truthy and no string.
FilterRaises(document_ids) == Truthy(document_ids) /\ ~IsStr(document_ids)

\* An exception leaving the tool instead of a text.
Propagated == ToolText("exception")

\* The tool without its outer handler.
SearchNoExcept(raised, text) ==
    IF raised THEN Propagated ELSE text

\* The handler of lines 453-457: whatever was raised inside becomes text.
SearchExcept(raised, text) ==
    IF raised THEN ToolText("FEHLER BEIM DURCHSUCHEN") ELSE text

\* The query test that only asks whether the query is falsy.
QueryRefusedFalsyOnly(query) == ~Truthy(query)

\* Lines 262-264: the query is refused before anything is searched.
QueryRefused(query) == InvalidText(query)

\* Whether the call reaches compression_retriever.invoke (line 275).
InvokesRetriever(query, document_ids) ==
    ~QueryRefused(query) /\ ~FilterRaises(document_ids)

\* pdf_search_tool(query, document_ids), the retriever answering retrieved.
pdf_search_tool(query, document_ids, retrieved) ==
    IF QueryRefused(query) THEN ToolText("FEHLER: Suchanfrage ist leer oder ungueltig")
    ELSE SearchExcept(FilterRaises(document_ids),
                      IF FilterRaises(document_ids) THEN ToolText("")
                      ELSE SearchResult(target_doc_ids(document_ids), retrieved))

(***************************************************************************)
(* The inputs the model is run on.                                         *)
(***************************************************************************)

\* Fragments handed back per retrieval, segments per agent text, tool calls
\* per question.
MaxDocs == 2
MaxSegs == 2
MaxToolCalls == 1

Fragment(attrs, meta_is_dict, document_id, pdf_id, chunk_id, pages, page_number, content, adjacent) ==
    [attrs |-> attrs, meta_is_dict |-> meta_is_dict, document_id |-> document_id,
     pdf_id |-> pdf_id, chunk_id |-> chunk_id, pages |-> pages,
     page_number |-> page_number, content |-> content, adjacent |-> adjacent]

FragmentPool ==
    { Fragment(TRUE, TRUE, "d1", "", 6, <<4>>, 0, <<"t">>, "both"),
      Fragment(TRUE, TRUE, "d1", "", 0, <<9, 4>>, 0, <<"t">>, "next"),
      Fragment(TRUE, TRUE, "", "d2", -1, <<>>, 9, <<"t">>, "none"),
      Fragment(TRUE, TRUE, "d2", "", 3, <<9>>, 0, <<" ">>, "both"),
      Fragment(TRUE, TRUE, "", "", 1, <<>>, 0, <<"t">>, "raise"),
      Fragment(TRUE, FALSE, "", "", -1, <<>>, 0, <<"t">>, "none"),
      Fragment(FALSE, FALSE, "", "", -1, <<>>, 0, <<>>, "none") }

RECURSIVE SeqsUpTo(_, _)
\* The sequences of at most n elements of S.
SeqsUpTo(S, n) ==
    IF n = 0 THEN {<<>>}
    ELSE LET shorter == SeqsUpTo(S, n - 1)
         IN shorter \cup {Append(q, x) : q \in shorter, x \in S}

Retrievals ==
    {RetrieverRaises, RetrieverNone, RetrieverNonList}
    \cup {RetrieverList(docs) : docs \in SeqsUpTo(FragmentPool, MaxDocs)}

Questions == {PyStr(<<"q">>), PyStr(<<>>), PyStr(<<" ">>), PyNone, PyObj}

Namespaces == {PyStr(<<"ns1">>), PyStr(<<>>), PyStr(<<" ", " ">>), PyNone, PyObj}

ChatHistories == {<<>>, <<"user", "assistant">>}

Queries == {PyStr(<<"q">>), PyStr(<<" ", "q">>), PyStr(<<>>), PyStr(<<" ">>), PyNone, PyObj}

DocumentIdFilters ==
    {PyStr(<<>>), PyStr(<<",">>), PyStr(<<" ", ",", " ">>), PyStr(<<"d1">>),
     PyStr(<<" ", "d2", ",", "d1">>), PyStr(<<"d3">>), PyNone, PyObj}

\* The pieces an agent text is put together from.
Segments ==
    { <<"x">>, <<"{">>, <<"}">>, <<"{", "KV", "}">>,
      <<"SI", "FP", "[4]">>, <<"FP", "[7]">>,
      <<"BS", "O", "FP", "BS", "Dot">> }

RECURSIVE Texts(_)
\* The texts of at most n segments.
Texts(n) ==
    IF n = 0 THEN {<<>>}
    ELSE LET shorter == Texts(n - 1)
         IN shorter \cup {t \o g : t \in shorter, g \in Segments}

RawTexts == Texts(MaxSegs)

\* The values the model may give a key.
JsonValues ==
    {JNull, JBool(TRUE), JBool(FALSE), JNum(9), JNum(15), JNum(-10), JNum(0), JHuge,
     JStr(<<"a">>), JStr(<<>>), JList(<<"d1">>), JList(<<>>)}

\* The record the task description asks for, filled in as asked.
FullRecord ==
    [k \in Keys |->
        CASE k = "answer" -> JStr(<<"a">>)
          [] k = "document_ids" -> JList(<<"d1">>)
          [] k = "sources" -> JList(<<"s">>)
          [] k = "confidence_score" -> JNum(9)
          [] k = "context_used" -> JBool(FALSE)
          [] k = "additional_info" -> JNull
          [] k = "pages" -> JList(<<"4">>)]

\* The objects the model writes: empty, one key, or all keys.
ModelRecords ==
    {EmptyDict, FullRecord}
    \cup {[EmptyDict EXCEPT ![k] = v] : k \in Keys, v \in JsonValues}

(***************************************************************************)
(* The metadata store (Firebase, src/firebase_connection.py) and the       *)
(* vector store.                                                           *)
(*                                                                         *)
(* files/{namespace} holds one child per document and the child            *)
(* example_questions.  A node is described by the keys of its dict.        *)
(* The vector manager is not part of src/: it is modelled from the         *)
(* interface the specification gives it (upsert, delete, search), each     *)
(* call answering with a tagged result.                                    *)
(***************************************************************************)

\* The namespace keys of the stores, and the documents uploaded to them.
NsKeys == {<<"ns1">>}
DocIds == {"d1", "d2"}

\* The children of files/{namespace}.
ChildKeys == DocIds \cup {"example_questions"}

\* No node at the path.
AbsentNode == [present |-> FALSE, is_dict |-> FALSE, keys |-> {}]

\* A document's node as append_metadata writes it (lines 154-164).
DocNode == [present |-> TRUE, is_dict |-> TRUE, keys |-> {"chunk_count", "summary"}]

\* example_questions when only its child status was set (lines 512-513).
StatusNode == [present |-> TRUE, is_dict |-> TRUE, keys |-> {"status"}]

\* example_questions as set_example_questions writes it (lines 461-466).
QuestionsNode ==
    [present |-> TRUE, is_dict |-> TRUE,
     keys |-> {"questions_and_answers", "timestamp", "status"}]

\* files/{namespace} with no data.
NoChildren == [k \in ChildKeys |-> AbsentNode]

\* How a call of the metadata store ends: it answers, it raises (the store
\* is unreachable), or it answers with data that is no dict.
StoreReads == {"ok", "raise", "malformed"}

\* ref.child(key).set(...) for chunk_count and summary (lines 145-164): the
\* node has both keys afterwards, and keeps the keys it had.
append_metadata(children, fileID, write_ok) ==
    IF write_ok
    THEN [children EXCEPT ![fileID] =
            [present |-> TRUE, is_dict |-> TRUE,
             keys |-> @.keys \cup {"chunk_count", "summary"}]]
    ELSE children

\* delete_document_metadata (lines 250-274): an error when the node is not
\* there or the store raises, else the node is deleted.
delete_document_metadata(children, fileID, delete_ok) ==
    IF ~delete_ok THEN [status |-> "error", children |-> children]
    ELSE IF ~children[fileID].present THEN [status |-> "error", children |-> children]
    ELSE [status |-> "success", children |-> [children EXCEPT ![fileID] = AbsentNode]]

\* delete_namespace_metadata (lines 286-310).
delete_namespace_metadata(children, delete_ok) ==
    IF ~delete_ok \/ children = NoChildren THEN children ELSE NoChildren

\* set_example_questions_status (lines 511-518): example_questions/status is
\* set, which makes the node a dict with the key status.
set_example_questions_status(children, write_ok) ==
    IF write_ok
    THEN [children EXCEPT !["example_questions"] =
            [present |-> TRUE, is_dict |-> TRUE, keys |-> @.keys \cup {"status"}]]
    ELSE children

\* set_example_questions (lines 460-471): the node is replaced.
set_example_questions(children, write_ok) ==
    IF write_ok THEN [children EXCEPT !["example_questions"] = QuestionsNode]
    ELSE children

\* get_namespace_data (lines 322-342): success only with data.
get_namespace_data(children, read) ==
    IF read = "raise" THEN [status |-> "error", truthy |-> FALSE, is_dict |-> FALSE]
    ELSE IF children = NoChildren THEN [status |-> "error", truthy |-> FALSE, is_dict |-> TRUE]
    ELSE [status |-> "success", truthy |-> TRUE, is_dict |-> read = "ok"]

\* Lines 896-898: the entries get_namespace_summary takes for documents.
IsDocumentEntry(node) ==
    /\ node.is_dict
    /\ node.keys \cap {"summary", "status", "chunk_count"} # {}

\* get_namespace_summary (lines 884-933).
get_namespace_summary(available, children, read) ==
    LET firebase_result == get_namespace_data(children, read)
        documents == {k \in ChildKeys :
                        children[k].present /\ IsDocumentEntry(children[k])}
    IN IF available /\ firebase_result.status = "success" /\ firebase_result.truthy
       THEN IF ~firebase_result.is_dict
            THEN [status |-> "error", document_count |-> 0, documents |-> {}]
            ELSE [status |-> "success", document_count |-> Cardinality(documents),
                  documents |-> documents]
       ELSE [status |-> "success", document_count |-> 0, documents |-> {}]

\* document_overview_tool (lines 215-249): the report and the ids it lists.
document_overview_tool(summary_data) ==
    IF summary_data.status # "success" THEN [kind |-> "FEHLER", ids |-> {}]
    ELSE IF summary_data.document_count = 0 THEN [kind |-> "KEINE DOKUMENTE", ids |-> {}]
    ELSE [kind |-> "DOKUMENTUEBERSICHT", ids |-> summary_data.documents]

\* A tool that reports what the agent was set up with.
summary_data_captured(captured, summary_now) ==
    [status |-> "success", document_count |-> Cardinality(captured.ids),
     documents |-> captured.ids]

\* summary_data = self.get_namespace_summary(namespace)   (line 216): read
\* when the tool is called, whatever overview the agent was set up with.
summary_data_of_tool(captured, summary_now) == summary_now

\* _get_documents_overview_for_prompt (lines 499-526).
documents_overview_for_prompt(summary_data) ==
    IF summary_data.status # "success" \/ summary_data.document_count = 0
    THEN [kind |-> "KEINE DOKUMENTE VERFUEGBAR", ids |-> {}]
    ELSE [kind |-> "VERFUEGBARE DOKUMENTE", ids |-> summary_data.documents]

\* No agent is cached for the namespace.
NoOverview == [kind |-> "", ids |-> {}]

\* A cache test that never finds the agent.
CacheMiss(cached, key) == FALSE

\* namespace in self._agents (line 190).
CacheHit(cached, key) == key \in cached

\* setup_agent (lines 190-196, 486): the overview the namespace's agent
\* carries after the call.
setup_agent(cached, overviews, key, overview_now) ==
    IF CacheHit(cached, key) THEN overviews
    ELSE [overviews EXCEPT ![key] = overview_now]

\* The status that also asks for the metadata deletion.
DeleteStatusBoth(pinecone_deleted, firebase_deleted) ==
    IF pinecone_deleted /\ firebase_deleted THEN "success" ELSE "error"

\* "success" if pinecone_deleted else "error"   (line 856)
DeleteStatus(pinecone_deleted, firebase_deleted) ==
    IF pinecone_deleted THEN "success" ELSE "error"

\* An indexing that writes the metadata before it knows of the vectors.
index_document_stores_first(vecs, children, available, fileID, index_ok, write_ok) ==
    [status |-> IF index_ok THEN "success" ELSE "error",
     vecs |-> IF index_ok THEN vecs \cup {fileID} ELSE vecs,
     children |-> IF available THEN append_metadata(children, fileID, write_ok)
                  ELSE children]

\* index_document (lines 164-178): the vector manager indexes the chunks;
\* on success, with Firebase available, the metadata is written.
index_document(vecs, children, available, fileID, index_ok, write_ok) ==
    IF ~index_ok THEN [status |-> "error", vecs |-> vecs, children |-> children]
    ELSE [status |-> "success", vecs |-> vecs \cup {fileID},
          children |-> IF available THEN append_metadata(children, fileID, write_ok)
                       ELSE children]

\* process_document_full (lines 785-830): extract_pdf, process_pdf_content,
\* index_document, then append_metadata once more; steps lists the steps
\* that ran, the last of them the failing one when the status is error.
process_document_full(vecs, children, available, fileID, extract_ok, process_ok, index_ok, write_ok) ==
    LET r == index_document(vecs, children, available, fileID, index_ok, write_ok)
    IN IF ~extract_ok
       THEN [status |-> "error", vecs |-> vecs, children |-> children,
             steps |-> <<"extract">>]
       ELSE IF ~process_ok
       THEN [status |-> "error", vecs |-> vecs, children |-> children,
             steps |-> <<"extract", "process">>]
       ELSE IF r.status # "success"
       THEN [status |-> r.status, vecs |-> r.vecs, children |-> r.children,
             steps |-> <<"extract", "process", "index">>]
       ELSE [status |-> "success", vecs |-> r.vecs,
             children |-> IF available
                          THEN append_metadata(r.children, fileID, write_ok)
                          ELSE r.children,
             steps |-> IF available
                       THEN <<"extract", "process", "index", "store">>
                       ELSE <<"extract", "process", "index">>]

\* What an operation reports; the fields an operation does not set keep
\* these values.
NoOp ==
    [name |-> "", doc |-> "", status |-> "", pinecone_deleted |-> FALSE,
     firebase_attempted |-> FALSE, firebase_deleted |-> FALSE,
     reused |-> FALSE, read |-> "", kind |-> "", ids |-> {}, steps |-> <<>>]

(***************************************************************************)
(* The state.                                                              *)
(*                                                                         *)
(*   agents      the keys of AgentProcessor._agents                        *)
(*   pc          where answer_question is: "idle" (not called),            *)
(*               "await_model" (inside crew.kickoff(), the agent deciding  *)
(*               its next step), "tool_call" (inside crew.kickoff(), the   *)
(*               search tool has returned to the agent), "done" (returned  *)
(*               or raised)                                                *)
(*   question, namespace, has_history   the call's arguments and local     *)
(*   tool        the search tool's call: its arguments, whether it asked   *)
(*               the retriever, what the retriever answered, what the      *)
(*               tool returned                                             *)
(*   result_str, fields   the agent's text and the pairs in its object     *)
(*   outcome     "none", "returned" or "raised"                            *)
(*   response    the dict returned                                         *)
(*   calls       per question: setup_agent calls, crew.kickoff calls,      *)
(*               tool calls, retriever invocations, runs of the parsing    *)
(*               block (lines 672-755)                                     *)
(*   found_pages the pages of the FOUND_PAGES lines the tool wrote during  *)
(*               the question                                              *)
(*   firebase_available   AgentProcessor._firebase_available               *)
(*   files       the metadata store: per namespace the children of         *)
(*               files/{namespace}                                         *)
(*   vectors     the vector store: per namespace the documents indexed     *)
(*   agent_overview   per namespace the documents_overview compiled into   *)
(*               the cached agent (NoOverview when none is cached)         *)
(*   deleted     per namespace the documents whose vector deletion         *)
(*               succeeded and that were not indexed again                 *)
(*   last_op     the last store operation and what it returned             *)
(*   chat_history   chat_state.chat_history, per namespace                 *)
(*   requests    the send_message requests: where each handler is, its     *)
(*               arguments and the history it read                         *)
(*   running     the request whose handler holds the event loop, 0 if none *)
(*   appended    per namespace every entry appended to the buffer since    *)
(*               chat_history was last reset                               *)
(***************************************************************************)
VARIABLES agents, pc, question, namespace, has_history, tool, result_str,
          fields, outcome, response, calls, found_pages,
          firebase_available, files, vectors, agent_overview, deleted, last_op,
          chat_history, requests, running, appended,
          metadata, status_update, last_meta,
          questions_node, generation, upload_task, get_call, last_task

vars == <<agents, pc, question, namespace, has_history, tool, result_str,
          fields, outcome, response, calls, found_pages,
          firebase_available, files, vectors, agent_overview, deleted, last_op,
          chat_history, requests, running, appended,
          metadata, status_update, last_meta,
          questions_node, generation, upload_task, get_call, last_task>>

\* The variables of one answer_question call.
callVars == <<pc, question, namespace, has_history, tool, result_str, fields,
              outcome, response, calls, found_pages>>

\* The stores and what was last done to them.
storeVars == <<firebase_available, files, vectors, deleted, last_op>>

\* The chat state and the requests in flight.
chatVars == <<chat_history, requests, running, appended>>

\* The document records of the metadata store with their values, the
\* update_document_status call under way, and the last call made.
metaVars == <<metadata, status_update, last_meta>>

\* The node files/{namespace}/example_questions of one namespace with its
\* values, the generation runs, the processing task of the upload, the
\* get_example_questions request under way and the last result returned.
taskVars == <<questions_node, generation, upload_task, get_call, last_task>>

\* The state of the calls made by the task workers.
workerVars == <<metaVars, taskVars>>

\* The stores without the record of the last operation.
storeVarsKept == <<firebase_available, files, vectors, deleted>>

NoTool == [called |-> FALSE, query |-> PyNone, document_ids |-> PyNone,
           invoked |-> FALSE, retrieved |-> RetrieverNone, result |-> ToolText("")]

NoCalls == [setup |-> 0, kickoff |-> 0, tool |-> 0, retriever |-> 0, parse |-> 0]

NoResponse == Response(<<>>, <<>>, <<>>, 0, FALSE, JNull, <<>>)

\* send_message requests per run, and requests in flight at a time.
MaxRequests == 6
MaxPending == 2

\* len(...) > 10 and [-10:]   (main.py, lines 289-290)
HistoryCap == 10

\* A request that has not arrived; a request that was answered is "done" and
\* its answer is the last operation's.
NoRequest == [pc |-> "none", user_input |-> PyNone, namespace |-> PyNone, seen |-> <<>>]

\* The form fields of a send_message request (main.py, line 232).
UserInputs == {PyStr(<<"q">>), PyStr(<<" ">>)}
ChatNamespaces == {PyStr(<<"ns1">>), PyStr(<<"ns2">>), PyStr(<<" ">>)}

\* The namespaces chat_state.chat_history has a list for; a namespace
\* without a key has the empty history (main.py, line 276).
ChatKeys == {<<"ns1">>, <<"ns2">>}

\* The two entries a request appends (main.py, lines 285-286); a request's
\* number stands for its user_input and for the answer to it.
UserEntry(i) == [role |-> "user", content |-> i]
AssistantEntry(i) == [role |-> "assistant", content |-> i]

\* The last n entries of a list: history[-n:].
LastN(history, n) ==
    IF Len(history) > n THEN SubSeq(history, Len(history) - n + 1, Len(history))
    ELSE history

\* A truncation that keeps the oldest entries.
truncate_history_oldest(history) ==
    IF Len(history) > HistoryCap THEN SubSeq(history, 1, HistoryCap) ELSE history

\* main.py, lines 289-290.
truncate_history(history) ==
    IF Len(history) > HistoryCap THEN LastN(history, HistoryCap) ELSE history

\* An update that appends the two entries to every namespace's history.
update_chat_history_all(histories, key, i) ==
    [k \in DOMAIN histories |->
        truncate_history(histories[k] \o <<UserEntry(i), AssistantEntry(i)>>)]

\* main.py, lines 282-290: the two entries are appended to the addressed
\* namespace's history, which is then cut to its last entries.
update_chat_history(histories, key, i) ==
    [histories EXCEPT
        ![key] = truncate_history(@ \o <<UserEntry(i), AssistantEntry(i)>>)]

\* A handler that gives the event loop away while the agent works.
YieldsAtEveryCall == TRUE

\* main.py, line 279: message_bot_agent is called, not awaited, and
\* send_message has no await; the handler keeps the event loop from its
\* first line to its return.
YieldsAtAgentCall == FALSE

(***************************************************************************)
(* The document records of files/{namespace} with their values             *)
(* (src/firebase_connection.py).  A field that is not stored has the       *)
(* empty value of its type; the store keeps no empty list and no node      *)
(* without children, so a record whose fields are all empty is not there.  *)
(***************************************************************************)

\* No record at files/{namespace}/{fileID}.
NoRecord ==
    [chunk_count |-> 0, keywords |-> <<>>, summary |-> "", status |-> ""]

\* The arguments of append_metadata (lines 120-121).
ChunkCounts == {1}
KeywordLists == {<<>>, <<"a">>, <<"b", "a">>}
Summaries == {"s1"}

\* The status_data of update_document_status (line 344).
StatusData == {"indexed"}

\* list(set(l)) (line 152): the distinct elements of l in an order the
\* program does not choose.
ListOfSet(l) ==
    {k \in [1..Cardinality(Range(l)) -> Range(l)] : Range(k) = Range(l)}

\* An append_metadata that stores the supplied keywords alone.
append_metadata_fields_replacing(existing_data, chunk_count, keywords, summary) ==
    {[existing_data EXCEPT !.chunk_count = chunk_count, !.keywords = k,
                           !.summary = summary] : k \in ListOfSet(keywords)}

\* append_metadata (lines 148-164): the records the call can leave at
\* files/{namespace}/{fileID}, given the record it read there.  The three
\* fields are set where they differ; the other fields are not touched.
append_metadata_fields(existing_data, chunk_count, keywords, summary) ==
    {[existing_data EXCEPT !.chunk_count = chunk_count, !.keywords = k,
                           !.summary = summary] :
        k \in ListOfSet(existing_data.keywords \o keywords)}

\* update_document_status (lines 366-372): existing_data is what the call
\* read; the keys of status_data are set in it and ref.update writes every
\* key it holds, leaving the keys it does not hold as the store has them.
update_document_status(record_now, existing_data, status_data) ==
    LET merged == [existing_data EXCEPT !.status = status_data]
    IN [chunk_count |-> IF merged.chunk_count # 0 THEN merged.chunk_count
                        ELSE record_now.chunk_count,
        keywords |-> IF merged.keywords # <<>> THEN merged.keywords
                     ELSE record_now.keywords,
        summary |-> IF merged.summary # "" THEN merged.summary ELSE record_now.summary,
        status |-> merged.status]

\* No update_document_status call is under way.
NoStatusUpdate ==
    [pc |-> "idle", fileID |-> "", status_data |-> "", existing_data |-> NoRecord]

\* No call was made yet.
NoMetaCall == [name |-> "", fileID |-> "", status |-> "", keywords |-> <<>>]

(***************************************************************************)
(* The example questions of one namespace: the node                        *)
(* files/{namespace}/example_questions with its values, written by the     *)
(* generation runs of the task workers and read by the request             *)
(* get_example_questions of the web process.                               *)
(***************************************************************************)

MaxRuns == 2

\* The generation runs that can be under way together.
RunIds == 1..MaxRuns

\* Nothing at files/{namespace}/example_questions.  questions_and_answers
\* is the list of the run that stored it; the store keeps no empty list.
NoQuestions == [status |-> "", questions_and_answers |-> <<>>]

\* set_example_questions (firebase_connection.py, lines 459-471): one
\* ref.set of the questions, the timestamp and the status "completed".
set_example_questions_node(node, questions_and_answers, write_ok) ==
    IF write_ok
    THEN [status |-> "completed", questions_and_answers |-> questions_and_answers]
    ELSE node

\* set_example_questions_status (lines 510-518): the child status alone.
set_example_questions_status_node(node, status, write_ok) ==
    IF write_ok THEN [node EXCEPT !.status = status] ELSE node

\* get_example_questions_status (lines 530-540)
get_example_questions_status(node, read_ok) ==
    IF read_ok
    THEN [status |-> "success",
          generation_status |-> IF node.status # "" THEN node.status ELSE "not_found"]
    ELSE [status |-> "error", generation_status |-> ""]

\* get_example_questions of the store (lines 483-498): the questions of a
\* node that is there.
get_example_questions(node, read_ok) ==
    IF ~read_ok THEN [status |-> "error", data |-> <<>>]
    ELSE IF node # NoQuestions
    THEN [status |-> "success", data |-> node.questions_and_answers]
    ELSE [status |-> "not_found", data |-> <<>>]

\* An answer of get_example_questions that has no "data" (main.py, lines
\* 346-383).
WithoutData(status) ==
    [status |-> status, has_data |-> FALSE, data |-> <<>>]

\* The answer of the request get_example_questions (main.py, lines
\* 344-383) to the results of its two reads; the second read is made, and
\* looked at, for the status "completed" only.
get_example_questions_response(status_result, questions_result) ==
    IF status_result.status # "success" THEN WithoutData("error")
    ELSE IF status_result.generation_status = "generating" THEN WithoutData("generating")
    ELSE IF status_result.generation_status = "error" THEN WithoutData("error")
    ELSE IF status_result.generation_status = "completed"
    THEN IF questions_result.status = "success"
         THEN [status |-> "success", has_data |-> TRUE, data |-> questions_result.data]
         ELSE WithoutData("error")
    ELSE WithoutData("not_found")

\* No generation run.  upload: the run was dispatched by the upload;
\* after_processing: the upload's processing task had finished when the run
\* read the namespace's documents.
NoRun == [pc |-> "none", upload |-> FALSE, after_processing |-> FALSE]

\* No result yet.  seen is the generation status a request read.
NoResult ==
    [name |-> "", status |-> "", has_data |-> FALSE, data |-> <<>>, seen |-> ""]

\* The requests that have arrived and whose handler has not started.
Pending == {i \in 1..MaxRequests : requests[i].pc = "pending"}

\* The requests between their history read and their history update.
InFlight == {i \in 1..MaxRequests : requests[i].pc = "read"}

\* AgentProcessor.__init__ (lines 78-92) and ChatState.__init__ (main.py,
\* lines 74-76): Firebase connected or not, no agent cached, no question
\* asked, no chat history.
Init ==
    /\ agents = {}
    /\ pc = "idle"
    /\ question = PyNone
    /\ namespace = PyNone
    /\ has_history = FALSE
    /\ tool = NoTool
    /\ result_str = <<>>
    /\ fields = EmptyDict
    /\ outcome = "none"
    /\ response = NoResponse
    /\ calls = NoCalls
    /\ found_pages = {}
    /\ firebase_available \in BOOLEAN
    /\ files = [k \in NsKeys |-> NoChildren]
    /\ vectors = [k \in NsKeys |-> {}]
    /\ agent_overview = [k \in NsKeys |-> NoOverview]
    /\ deleted = [k \in NsKeys |-> {}]
    /\ last_op = NoOp
    /\ chat_history = [k \in ChatKeys |-> <<>>]
    /\ requests = [i \in 1..MaxRequests |-> NoRequest]
    /\ running = 0
    /\ appended = [k \in ChatKeys |-> <<>>]
    /\ metadata = [d \in DocIds |-> NoRecord]
    /\ status_update = NoStatusUpdate
    /\ last_meta = NoMetaCall
    /\ questions_node = NoQuestions
    /\ generation = [r \in RunIds |-> NoRun]
    /\ upload_task = "none"
    /\ get_call = "idle"
    /\ last_task = NoResult

\* answer_question without its outermost handler.
answer_question_no_except(raised, returned) ==
    IF raised THEN [outcome |-> "raised", response |-> NoResponse]
    ELSE [outcome |-> "returned", response |-> returned]

\* The outermost handler of answer_question (lines 540, 757-768): what was
\* raised inside is answered with the error record.
answer_question_except(raised, returned) ==
    IF raised THEN [outcome |-> "returned", response |-> ErrorResponse]
    ELSE [outcome |-> "returned", response |-> returned]

\* bool(chat_history and len(chat_history) > 0)   (line 568)
HasHistory(history) == Len(history) > 0

\* answer_question is called with an argument the validation refuses
\* (lines 542-562).
AnswerRefused ==
    /\ pc = "idle"
    /\ \E q \in Questions, ns \in Namespaces :
          /\ InvalidText(q) \/ InvalidText(ns)
          /\ question' = q
          /\ namespace' = ns
          /\ LET r == answer_question_except(FALSE,
                          IF InvalidText(q) THEN InvalidQuestionResponse
                          ELSE InvalidNamespaceResponse)
             IN outcome' = r.outcome /\ response' = r.response
    /\ pc' = "done"
    /\ UNCHANGED <<agents, has_history, tool, result_str, fields, calls, found_pages>>
    /\ UNCHANGED <<agent_overview, storeVars, chatVars, workerVars>>

\* answer_question is called with valid arguments: setup_agent (line 564,
\* lines 190-193 and 486), then the task is built and crew.kickoff() entered
\* (lines 566-669).  setup_agent may raise (the vector store is unreachable).
AnswerStart ==
    /\ pc = "idle"
    /\ \E q \in Questions, ns \in Namespaces, history \in ChatHistories,
          setup_ok \in BOOLEAN, read \in StoreReads :
          /\ ~InvalidText(q)
          /\ ~InvalidText(ns)
          /\ question' = q
          /\ namespace' = ns
          /\ IF setup_ok
             THEN /\ agents' = agents \cup {ns.val}
                  /\ agent_overview' =
                        setup_agent(agents, agent_overview, ns.val,
                            documents_overview_for_prompt(
                                get_namespace_summary(firebase_available,
                                                      files[ns.val], read)))
                  /\ has_history' = HasHistory(history)
                  /\ calls' = [calls EXCEPT !.setup = 1, !.kickoff = 1]
                  /\ pc' = "await_model"
                  /\ UNCHANGED <<outcome, response>>
             ELSE /\ LET r == answer_question_except(TRUE, NoResponse)
                     IN outcome' = r.outcome /\ response' = r.response
                  /\ calls' = [calls EXCEPT !.setup = 1]
                  /\ pc' = "done"
                  /\ UNCHANGED <<agents, agent_overview, has_history>>
    /\ UNCHANGED <<tool, result_str, fields, found_pages, storeVars, chatVars, workerVars>>

\* The agent calls the PDF Search Tool (lines 251-457); the retriever is
\* asked only when the call reaches line 275.
SearchToolCall ==
    /\ pc = "await_model"
    /\ calls.tool < MaxToolCalls
    /\ \E query \in Queries, document_ids \in DocumentIdFilters :
          \E retrieved \in IF InvokesRetriever(query, document_ids)
                           THEN Retrievals ELSE {RetrieverNone} :
             LET invoked == InvokesRetriever(query, document_ids)
                 result == pdf_search_tool(query, document_ids, retrieved)
             IN /\ tool' = [called |-> TRUE, query |-> query,
                            document_ids |-> document_ids, invoked |-> invoked,
                            retrieved |-> retrieved, result |-> result]
                /\ calls' = [calls EXCEPT !.tool = @ + 1,
                                          !.retriever = IF invoked THEN @ + 1 ELSE @]
                /\ found_pages' = IF result.kind = "ERGEBNIS"
                                  THEN found_pages \cup Range(result.pages)
                                  ELSE found_pages
    /\ pc' = "tool_call"
    /\ UNCHANGED <<agents, question, namespace, has_history, result_str,
                   fields, outcome, response>>
    /\ UNCHANGED <<agent_overview, storeVars, chatVars, workerVars>>

\* The tool's text is handed to the model, which decides its next step.
ToolResultRead ==
    /\ pc = "tool_call"
    /\ pc' = "await_model"
    /\ tool' = NoTool
    /\ UNCHANGED <<agents, question, namespace, has_history, result_str, fields,
                   outcome, response, calls, found_pages>>
    /\ UNCHANGED <<agent_overview, storeVars, chatVars, workerVars>>

\* crew.kickoff() returns the agent's text, which is parsed (lines 669-755).
KickoffReturns ==
    /\ pc = "await_model"
    /\ \E text \in RawTexts :
          \E flds \in IF "KV" \in Range(text) THEN ModelRecords ELSE {EmptyDict} :
             /\ result_str' = text
             /\ fields' = flds
             /\ LET r == answer_question_except(FALSE,
                             ParseResult(text, flds, has_history))
                IN outcome' = r.outcome /\ response' = r.response
    /\ calls' = [calls EXCEPT !.parse = 1]
    /\ pc' = "done"
    /\ UNCHANGED <<agents, question, namespace, has_history, tool, found_pages>>
    /\ UNCHANGED <<agent_overview, storeVars, chatVars, workerVars>>

\* crew.kickoff() raises (the model is unreachable): lines 757-768.
KickoffRaises ==
    /\ pc = "await_model"
    /\ LET r == answer_question_except(TRUE, NoResponse)
       IN outcome' = r.outcome /\ response' = r.response
    /\ pc' = "done"
    /\ UNCHANGED <<agents, question, namespace, has_history, tool, result_str, fields,
                   calls, found_pages>>
    /\ UNCHANGED <<agent_overview, storeVars, chatVars, workerVars>>

\* The caller has its answer; the next question may come.  Only the agent
\* cache outlives the call.
NextQuestion ==
    /\ pc = "done"
    /\ pc' = "idle"
    /\ question' = PyNone
    /\ namespace' = PyNone
    /\ has_history' = FALSE
    /\ tool' = NoTool
    /\ result_str' = <<>>
    /\ fields' = EmptyDict
    /\ outcome' = "none"
    /\ response' = NoResponse
    /\ calls' = NoCalls
    /\ found_pages' = {}
    /\ UNCHANGED <<agents, agent_overview, storeVars, chatVars, workerVars>>

Next ==
    \/ AnswerRefused
    \/ AnswerStart
    \/ SearchToolCall
    \/ ToolResultRead
    \/ KickoffReturns
    \/ KickoffRaises
    \/ NextQuestion

\* A processor whose Firebase connection was made (lines 78-83).
InitConnected == Init /\ firebase_available

\* The questions put to such a processor; answer_question reads nothing
\* else of the stores.
Spec == InitConnected /\ [][Next]_vars

(***************************************************************************)
(* Documents: upload, deletion, example questions, the cached agent and    *)
(* its Overview Tool.                                                      *)
(***************************************************************************)

\* index_document(processed_pdf, namespace, fileID)   (lines 151-178)
IndexDocument ==
    \E key \in NsKeys, fileID \in DocIds, index_ok \in BOOLEAN, write_ok \in BOOLEAN :
        LET r == index_document(vectors[key], files[key], firebase_available,
                                fileID, index_ok, write_ok)
        IN /\ vectors' = [vectors EXCEPT ![key] = r.vecs]
           /\ files' = [files EXCEPT ![key] = r.children]
           /\ deleted' = [deleted EXCEPT ![key] = IF index_ok THEN @ \ {fileID} ELSE @]
           /\ last_op' = [NoOp EXCEPT !.name = "index_document", !.doc = fileID,
                                      !.status = r.status]
           /\ UNCHANGED <<agents, agent_overview, firebase_available, callVars, chatVars, workerVars>>

\* process_document_full (lines 785-830): extraction and chunking, then
\* index_document, then the metadata once more.
ProcessDocumentFull ==
    \E key \in NsKeys, fileID \in DocIds, extract_ok \in BOOLEAN,
       process_ok \in BOOLEAN, index_ok \in BOOLEAN, write_ok \in BOOLEAN :
        LET r == process_document_full(vectors[key], files[key], firebase_available,
                                       fileID, extract_ok, process_ok, index_ok, write_ok)
        IN /\ vectors' = [vectors EXCEPT ![key] = r.vecs]
           /\ files' = [files EXCEPT ![key] = r.children]
           /\ deleted' = [deleted EXCEPT ![key] =
                            IF r.status = "success" THEN @ \ {fileID} ELSE @]
           /\ last_op' = [NoOp EXCEPT !.name = "process_document_full", !.doc = fileID,
                                      !.status = r.status, !.steps = r.steps]
           /\ UNCHANGED <<agents, agent_overview, firebase_available, callVars, chatVars, workerVars>>

\* delete_document(namespace, fileID)   (lines 843-860)
DeleteDocument ==
    \E key \in NsKeys, fileID \in DocIds, vector_ok \in BOOLEAN, delete_ok \in BOOLEAN :
        LET pinecone_deleted == vector_ok
            firebase_result == delete_document_metadata(files[key], fileID, delete_ok)
            firebase_deleted == firebase_available /\ firebase_result.status = "success"
        IN /\ vectors' = [vectors EXCEPT ![key] = IF vector_ok THEN @ \ {fileID} ELSE @]
           /\ files' = [files EXCEPT ![key] =
                          IF firebase_available THEN firebase_result.children ELSE @]
           /\ deleted' = [deleted EXCEPT ![key] =
                            IF pinecone_deleted THEN @ \cup {fileID} ELSE @]
           /\ last_op' = [NoOp EXCEPT
                            !.name = "delete_document", !.doc = fileID,
                            !.status = DeleteStatus(pinecone_deleted, firebase_deleted),
                            !.pinecone_deleted = pinecone_deleted,
                            !.firebase_attempted = firebase_available,
                            !.firebase_deleted = firebase_deleted]
           /\ UNCHANGED <<agents, agent_overview, firebase_available, callVars, chatVars, workerVars>>

\* delete_namespace (main.py, lines 425-440): AgentProcessor.delete_namespace
\* (lines 862-872), then the namespace's metadata.
DeleteNamespace ==
    \E key \in NsKeys, vector_ok \in BOOLEAN, delete_ok \in BOOLEAN :
        /\ vectors' = [vectors EXCEPT ![key] = IF vector_ok THEN {} ELSE @]
        /\ files' = [files EXCEPT ![key] =
                       IF firebase_available
                       THEN delete_namespace_metadata(@, delete_ok) ELSE @]
        /\ last_op' = [NoOp EXCEPT !.name = "delete_namespace", !.status = "success"]
        /\ UNCHANGED <<agents, agent_overview, firebase_available, deleted,
                       callVars, chatVars, workerVars>>

\* generate_and_store_example_questions (lines 1048-1100): the status
\* "generating" is written, each question is answered through
\* answer_question, which sets up (and caches) the namespace's agent, and
\* the answers are stored; a failed store writes the status "error".
\* setup_ok is FALSE when no question was asked or the setup raised.
GenerateAndStoreExampleQuestions ==
    \E key \in NsKeys, status_ok \in BOOLEAN, read \in StoreReads,
       setup_ok \in BOOLEAN, write_ok \in BOOLEAN, error_ok \in BOOLEAN :
        LET generating == IF firebase_available
                          THEN set_example_questions_status(files[key], status_ok)
                          ELSE files[key]
            overview_now == documents_overview_for_prompt(
                                get_namespace_summary(firebase_available, generating, read))
            stored == IF ~firebase_available THEN generating
                      ELSE IF write_ok THEN set_example_questions(generating, TRUE)
                      ELSE set_example_questions_status(generating, error_ok)
        IN \* an outcome that is not read is not varied
           /\ write_ok => ~error_ok
           /\ (~setup_ok \/ CacheHit(agents, key)) => read = "ok"
           /\ files' = [files EXCEPT ![key] = stored]
           /\ agents' = IF setup_ok THEN agents \cup {key} ELSE agents
           /\ agent_overview' = IF setup_ok
                                THEN setup_agent(agents, agent_overview, key, overview_now)
                                ELSE agent_overview
           /\ last_op' = [NoOp EXCEPT
                            !.name = "generate_and_store_example_questions",
                            !.status = IF firebase_available /\ write_ok
                                       THEN "success" ELSE "error"]
           /\ UNCHANGED <<firebase_available, vectors, deleted, callVars, chatVars, workerVars>>

\* setup_agent(namespace)   (lines 190-196 and 486): the cached agent is
\* returned, or an agent is built with the overview of this moment and
\* cached; a setup that raises caches nothing.
SetupAgent ==
    \E key \in NsKeys, setup_ok \in BOOLEAN, read \in StoreReads :
        LET overview_now == documents_overview_for_prompt(
                                get_namespace_summary(firebase_available, files[key], read))
            overviews == setup_agent(agents, agent_overview, key, overview_now)
        IN /\ agents' = IF setup_ok THEN agents \cup {key} ELSE agents
           /\ agent_overview' = IF setup_ok THEN overviews ELSE agent_overview
           /\ last_op' = [NoOp EXCEPT
                            !.name = "setup_agent",
                            !.status = IF setup_ok THEN "success" ELSE "error",
                            !.reused = setup_ok /\ CacheHit(agents, key),
                            !.kind = IF setup_ok THEN overviews[key].kind ELSE "",
                            !.ids = IF setup_ok THEN overviews[key].ids ELSE {}]
           /\ UNCHANGED <<storeVarsKept, callVars, chatVars, workerVars>>

\* The namespace's agent calls its Overview Tool (lines 212-249).
OverviewToolCall ==
    \E key \in NsKeys, read \in StoreReads :
        /\ key \in agents
        /\ LET report == document_overview_tool(
                            summary_data_of_tool(agent_overview[key],
                                get_namespace_summary(firebase_available, files[key], read)))
           IN last_op' = [NoOp EXCEPT !.name = "document_overview_tool",
                                      !.read = read,
                                      !.kind = report.kind, !.ids = report.ids]
        /\ UNCHANGED <<agents, agent_overview, storeVarsKept, callVars, chatVars, workerVars>>

\* get_namespace_summary(namespace)   (lines 884-933)
GetNamespaceSummary ==
    \E key \in NsKeys, read \in StoreReads :
        /\ LET summary == get_namespace_summary(firebase_available, files[key], read)
           IN last_op' = [NoOp EXCEPT !.name = "get_namespace_summary",
                                      !.status = summary.status, !.read = read,
                                      !.ids = summary.documents]
        /\ UNCHANGED <<agents, agent_overview, storeVarsKept, callVars, chatVars, workerVars>>

\* A similarity search in the namespace: the fragments it returns belong to
\* documents whose vectors are in the namespace.
SearchDocuments ==
    \E key \in NsKeys :
        \E found \in SUBSET vectors[key] :
            /\ last_op' = [NoOp EXCEPT !.name = "search", !.status = "success",
                                       !.ids = found]
            /\ UNCHANGED <<agents, agent_overview, storeVarsKept, callVars, chatVars, workerVars>>

\* start_bot (main.py, lines 219-228): the chat history of every namespace
\* is dropped; get_bot or start_bot_agent raising leaves it.
StartBot ==
    \E start_ok \in BOOLEAN :
        /\ chat_history' = IF start_ok THEN [k \in ChatKeys |-> <<>>] ELSE chat_history
        /\ appended' = IF start_ok THEN [k \in ChatKeys |-> <<>>] ELSE appended
        /\ last_op' = [NoOp EXCEPT !.name = "start_bot",
                                   !.status = IF start_ok THEN "success" ELSE "error"]
        /\ UNCHANGED <<agents, agent_overview, storeVarsKept, callVars,
                       requests, running, workerVars>>

NextStore ==
    \/ IndexDocument
    \/ ProcessDocumentFull
    \/ DeleteDocument
    \/ DeleteNamespace
    \/ GenerateAndStoreExampleQuestions
    \/ SetupAgent
    \/ OverviewToolCall
    \/ GetNamespaceSummary
    \/ SearchDocuments
    \/ StartBot

SpecStore == Init /\ [][NextStore]_vars

(***************************************************************************)
(* The chat: send_message and the per-namespace history buffer             *)
(* (src/main.py).                                                          *)
(***************************************************************************)

\* A send_message request reaches the server; its handler is scheduled on
\* the event loop.
SendMessageArrive ==
    \E i \in 1..MaxRequests :
        /\ requests[i].pc = "none"
        /\ \A j \in 1..(i - 1) : requests[j].pc # "none"
        /\ Cardinality(Pending \cup InFlight) < MaxPending
        /\ \E user_input \in UserInputs, ns \in ChatNamespaces :
              requests' = [requests EXCEPT ![i] =
                             [pc |-> "pending", user_input |-> user_input,
                              namespace |-> ns, seen |-> <<>>]]
        /\ UNCHANGED <<chat_history, running, appended, agents, agent_overview,
                       storeVars, callVars, workerVars>>

\* The handler runs from its first line to the call of the agent (main.py,
\* lines 244-279): the validation, then the history of the namespace is
\* read.  It starts when no handler holds the event loop; the loop starts
\* the handlers in the order the requests arrived.
SendMessageStart ==
    \E i \in 1..MaxRequests :
        /\ requests[i].pc = "pending"
        /\ \A j \in 1..(i - 1) : requests[j].pc # "pending"
        /\ running = 0
        /\ IF InvalidText(requests[i].user_input) \/ InvalidText(requests[i].namespace)
           THEN /\ requests' = [requests EXCEPT ![i] = [NoRequest EXCEPT !.pc = "done"]]
                /\ last_op' = [NoOp EXCEPT !.name = "send_message", !.status = "error"]
                /\ UNCHANGED running
           ELSE /\ requests' = [requests EXCEPT
                                  ![i].pc = "read",
                                  ![i].seen = chat_history[requests[i].namespace.val]]
                /\ running' = IF YieldsAtAgentCall THEN 0 ELSE i
                /\ UNCHANGED last_op
        /\ UNCHANGED <<chat_history, appended, agents, agent_overview,
                       storeVarsKept, callVars, workerVars>>

\* message_bot_agent returns and the handler updates the history (main.py,
\* lines 279-296), or message_bot_agent raises and the handler of line 298
\* answers with the history untouched.
SendMessageReturn ==
    \E i \in 1..MaxRequests, agent_ok \in BOOLEAN :
        /\ requests[i].pc = "read"
        /\ running \in {0, i}
        /\ LET key == requests[i].namespace.val
               entries == <<UserEntry(i), AssistantEntry(i)>>
           IN IF agent_ok
              THEN /\ chat_history' = update_chat_history(chat_history, key, i)
                   /\ appended' = [appended EXCEPT ![key] = @ \o entries]
                   /\ last_op' = [NoOp EXCEPT !.name = "send_message",
                                              !.status = "success"]
              ELSE /\ last_op' = [NoOp EXCEPT !.name = "send_message",
                                              !.status = "error"]
                   /\ UNCHANGED <<chat_history, appended>>
        /\ requests' = [requests EXCEPT ![i] = [NoRequest EXCEPT !.pc = "done"]]
        /\ running' = 0
        /\ UNCHANGED <<agents, agent_overview, storeVarsKept, callVars, workerVars>>

\* start_bot between two handlers.
ChatStartBot ==
    /\ running = 0
    /\ StartBot

NextChat ==
    \/ SendMessageArrive
    \/ SendMessageStart
    \/ SendMessageReturn
    \/ ChatStartBot

SpecChat == Init /\ [][NextChat]_vars

(***************************************************************************)
(* The calls on one namespace's document records: append_metadata,         *)
(* delete_document_metadata and update_document_status, the last one in    *)
(* its two accesses of the store.                                          *)
(***************************************************************************)

\* append_metadata(namespace, fileID, chunk_count, keywords, summary)
\* (lines 136-176); a store that raises leaves the record as it is.
AppendMetadata ==
    \E fileID \in DocIds, chunk_count \in ChunkCounts, keywords \in KeywordLists,
       summary \in Summaries, store_ok \in BOOLEAN :
        /\ IF store_ok
           THEN \E updated \in append_metadata_fields(metadata[fileID], chunk_count,
                                                      keywords, summary) :
                    metadata' = [metadata EXCEPT ![fileID] = updated]
           ELSE UNCHANGED metadata
        /\ last_meta' = [name |-> "append_metadata", fileID |-> fileID,
                         status |-> IF store_ok THEN "success" ELSE "error",
                         keywords |-> keywords]
        /\ UNCHANGED <<status_update, agents, agent_overview, storeVars, callVars, chatVars,
                          taskVars>>

\* delete_document_metadata(namespace, fileID)   (lines 250-274)
DeleteDocumentMetadata ==
    \E fileID \in DocIds, store_ok \in BOOLEAN :
        LET found == store_ok /\ metadata[fileID] # NoRecord
        IN /\ metadata' = IF found THEN [metadata EXCEPT ![fileID] = NoRecord]
                          ELSE metadata
           /\ last_meta' = [name |-> "delete_document_metadata", fileID |-> fileID,
                            status |-> IF found THEN "success" ELSE "error",
                            keywords |-> <<>>]
           /\ UNCHANGED <<status_update, agents, agent_overview, storeVars, callVars, chatVars,
                          taskVars>>

\* update_document_status up to its read: existing_data = ref.get() or {}
\* (lines 364-366).
UpdateStatusRead ==
    \E fileID \in DocIds, status_data \in StatusData :
        /\ status_update.pc = "idle"
        /\ status_update' = [pc |-> "read", fileID |-> fileID,
                             status_data |-> status_data,
                             existing_data |-> metadata[fileID]]
        /\ UNCHANGED <<metadata, last_meta, agents, agent_overview, storeVars,
                       callVars, chatVars, taskVars>>

\* update_document_status from its read on: ref.update(existing_data)
\* (lines 368-378).
UpdateStatusWrite ==
    /\ status_update.pc = "read"
    /\ metadata' = [metadata EXCEPT
                      ![status_update.fileID] =
                         update_document_status(@, status_update.existing_data,
                                                status_update.status_data)]
    /\ status_update' = NoStatusUpdate
    /\ last_meta' = [name |-> "update_document_status",
                     fileID |-> status_update.fileID, status |-> "success",
                     keywords |-> <<>>]
    /\ UNCHANGED <<agents, agent_overview, storeVars, callVars, chatVars, taskVars>>

NextMeta ==
    \/ AppendMetadata
    \/ DeleteDocumentMetadata
    \/ UpdateStatusRead
    \/ UpdateStatusWrite

SpecMeta == InitConnected /\ [][NextMeta]_vars

(***************************************************************************)
(* The example questions: the requests that dispatch a generation, the     *)
(* runs of generate_and_store_example_questions in the task workers, and   *)
(* the request get_example_questions.  The task runner runs the tasks it   *)
(* is handed asynchronously, each at its own pace.                         *)
(***************************************************************************)

\* upload_file (main.py, lines 140-151): the processing task and the
\* generation task are handed to the task runner one after the other, and
\* the request returns.
UploadFile ==
    \E r \in RunIds :
        /\ upload_task = "none"
        /\ generation[r].pc = "none"
        /\ upload_task' = "queued"
        /\ generation' = [generation EXCEPT ![r] = [NoRun EXCEPT !.pc = "queued",
                                                                 !.upload = TRUE]]
        /\ last_task' = [NoResult EXCEPT !.name = "upload_file", !.status = "success"]
        /\ UNCHANGED <<questions_node, get_call, agents, agent_overview, storeVars,
                       callVars, chatVars, metaVars>>

\* delete_file (main.py, lines 174-199): a generation task is handed to the
\* task runner after the deletion.
DeleteFile ==
    \E r \in RunIds :
        /\ generation[r].pc = "none"
        /\ generation' = [generation EXCEPT ![r] = [NoRun EXCEPT !.pc = "queued"]]
        /\ last_task' = [NoResult EXCEPT !.name = "delete_file", !.status = "success"]
        /\ UNCHANGED <<questions_node, upload_task, get_call, agents, agent_overview,
                       storeVars, callVars, chatVars, metaVars>>

\* The processing task of the upload runs to its end: the document is
\* indexed and its metadata stored, or the task fails.
ProcessDocumentTask ==
    \E task_ok \in BOOLEAN :
        /\ upload_task = "queued"
        /\ upload_task' = IF task_ok THEN "stored" ELSE "failed"
        /\ UNCHANGED <<questions_node, generation, get_call, last_task, agents,
                       agent_overview, storeVars, callVars, chatVars, metaVars>>

\* A run of generate_and_store_example_questions starts (lines 1048-1051):
\* the status "generating" is written; what the write returns is not read.
GenerationStart ==
    \E r \in RunIds, status_ok \in BOOLEAN :
        /\ generation[r].pc = "queued"
        /\ generation' = [generation EXCEPT ![r].pc = "generating"]
        /\ questions_node' =
             IF firebase_available
             THEN set_example_questions_status_node(questions_node, "generating", status_ok)
             ELSE questions_node
        /\ ~firebase_available => status_ok
        /\ UNCHANGED <<upload_task, get_call, last_task, agents, agent_overview,
                       storeVars, callVars, chatVars, metaVars>>

\* The run reads the namespace's documents for its prompt and has its
\* questions answered (lines 1053-1069 and 984).
GenerationQuestions ==
    \E r \in RunIds :
        /\ generation[r].pc = "generating"
        /\ generation' = [generation EXCEPT
                            ![r].pc = "answered",
                            ![r].after_processing =
                               generation[r].upload
                                 /\ upload_task \in {"stored", "failed"}]
        /\ UNCHANGED <<questions_node, upload_task, get_call, last_task, agents,
                       agent_overview, storeVars, callVars, chatVars, metaVars>>

\* The run stores its questions and returns (lines 1071-1100): a store
\* that fails makes the run write the status "error", and what that write
\* returns is not read.
GenerationStore ==
    \E r \in RunIds, write_ok \in BOOLEAN, error_ok \in BOOLEAN :
        LET stored == set_example_questions_node(questions_node, <<r>>, write_ok)
            failed == set_example_questions_status_node(questions_node, "error", error_ok)
        IN /\ generation[r].pc = "answered"
           /\ (write_ok \/ ~firebase_available) => ~error_ok
           /\ (~firebase_available) => ~write_ok
           /\ generation' = [generation EXCEPT ![r] = NoRun]
           /\ questions_node' = IF ~firebase_available THEN questions_node
                                ELSE IF write_ok THEN stored ELSE failed
           /\ last_task' = [NoResult EXCEPT
                              !.name = "generate_and_store_example_questions",
                              !.status = IF firebase_available /\ write_ok
                                         THEN "success" ELSE "error"]
           /\ UNCHANGED <<upload_task, get_call, agents, agent_overview, storeVars,
                          callVars, chatVars, metaVars>>

\* delete_namespace_metadata (firebase_connection.py, lines 276-310) takes
\* the node away with the namespace.
DeleteNamespaceQuestions ==
    /\ questions_node # NoQuestions
    /\ questions_node' = NoQuestions
    /\ last_task' = [NoResult EXCEPT !.name = "delete_namespace", !.status = "success"]
    /\ UNCHANGED <<generation, upload_task, get_call, agents, agent_overview,
                   storeVars, callVars, chatVars, metaVars>>

\* get_example_questions (main.py, lines 344-383) up to the answer of its
\* first read: the request returns, or goes on to read the questions when
\* the status it read is "completed".
GetExampleQuestionsStatus ==
    \E read_ok \in BOOLEAN :
        LET status_result == get_example_questions_status(questions_node, read_ok)
            goes_on == /\ status_result.status = "success"
                       /\ status_result.generation_status = "completed"
            answer == get_example_questions_response(
                          status_result, get_example_questions(questions_node, TRUE))
        IN /\ get_call = "idle"
           /\ get_call' = IF goes_on THEN "completed" ELSE "idle"
           /\ last_task' = IF goes_on THEN last_task
                           ELSE [name |-> "get_example_questions",
                                 status |-> answer.status,
                                 has_data |-> answer.has_data, data |-> answer.data,
                                 seen |-> status_result.generation_status]
           /\ UNCHANGED <<questions_node, generation, upload_task, agents,
                          agent_overview, storeVars, callVars, chatVars, metaVars>>

\* get_example_questions from its second read on (lines 359-372).
GetExampleQuestionsData ==
    \E read_ok \in BOOLEAN :
        LET answer == get_example_questions_response(
                          [status |-> "success", generation_status |-> "completed"],
                          get_example_questions(questions_node, read_ok))
        IN /\ get_call = "completed"
           /\ get_call' = "idle"
           /\ last_task' = [name |-> "get_example_questions",
                            status |-> answer.status,
                            has_data |-> answer.has_data, data |-> answer.data,
                            seen |-> "completed"]
           /\ UNCHANGED <<questions_node, generation, upload_task, agents,
                          agent_overview, storeVars, callVars, chatVars, metaVars>>

NextTasks ==
    \/ UploadFile
    \/ DeleteFile
    \/ ProcessDocumentTask
    \/ GenerationStart
    \/ GenerationQuestions
    \/ GenerationStore
    \/ DeleteNamespaceQuestions
    \/ GetExampleQuestionsStatus
    \/ GetExampleQuestionsData

SpecTasks == Init /\ [][NextTasks]_vars

(***************************************************************************)
(* The claims.                                                             *)
(***************************************************************************)

\* Empty, whitespace-only or not a string.
BlankOrNotString(v) == v.type # "str" \/ \A j \in 1..Len(v.val) : v.val[j] = " "

\* answer_question has ended.
Answered == pc = "done"

\* C1: a question or namespace that is empty, whitespace-only or not a
\* string is answered with confidence 0.0, no document ids, sources or
\* pages and an answer naming the invalid input, and nothing was called on
\* the way: no setup_agent, no crew.kickoff, no tool, no retriever.
C1_InvalidInputRejected ==
    (Answered /\ (BlankOrNotString(question) \/ BlankOrNotString(namespace))) =>
        /\ outcome = "returned"
        /\ response.confidence_score = 0
        /\ response.document_ids = <<>>
        /\ response.sources = <<>>
        /\ response.pages = <<>>
        /\ response.answer = IF BlankOrNotString(question)
                             THEN <<"Ungueltige Frage">>
                             ELSE <<"Ungueltiger Namespace">>
        /\ calls = NoCalls
        /\ result_str = <<>>

\* A whitespace-only question for a namespace whose agent is cached was
\* refused.
C1_Witness ==
    /\ Answered
    /\ question = PyStr(<<" ">>)
    /\ namespace = PyStr(<<"ns1">>)
    /\ <<"ns1">> \in agents
    /\ response = InvalidQuestionResponse

\* C2: answer_question never raises; whichever way it ends, it returns a
\* record with exactly the seven fields.
C2_AlwaysSevenFields ==
    /\ outcome # "raised"
    /\ Answered => (outcome = "returned" /\ DOMAIN response = SevenFields)

\* crew.kickoff() raised and the error record was returned.
C2_Witness ==
    /\ Answered
    /\ calls.kickoff = 1
    /\ calls.parse = 0
    /\ outcome = "returned"
    /\ response = ErrorResponse

\* The text between the first "{" and the last "}" of result_str is a JSON
\* object.
ParsesAsObject ==
    /\ calls.parse = 1
    /\ \E a \in 1..Len(result_str), b \in 1..Len(result_str) :
          /\ result_str[a] = "{" /\ \A j \in 1..(a - 1) : result_str[j] # "{"
          /\ result_str[b] = "}" /\ \A j \in (b + 1)..Len(result_str) : result_str[j] # "}"
          /\ a < b
          /\ \A j \in (a + 1)..(b - 1) : result_str[j] = "KV"
          /\ b - a <= 2

\* The object parsed: the pairs of fields, none for "{}".
ParsedObject == IF "KV" \in Range(result_str) THEN fields ELSE EmptyDict

\* The array of the marker in result_str, <<>> when there is no marker.
MarkerArray ==
    LET long == ReSearch(MarkerPatternEscapedOnce, result_str)
        short == ReSearch(AltMarkerPatternEscapedOnce, result_str)
    IN IF long.found THEN PageArrays[long.group[1]]
       ELSE IF short.found THEN PageArrays[short.group[1]]
       ELSE <<>>

\* C3: when the agent's text parses as a JSON object, pages is the array
\* of the FOUND_PAGES marker in the text, and [] when the text has no
\* marker.
C3_PagesFromMarker ==
    (Answered /\ ParsesAsObject) => response.pages = MarkerArray

\* C4: when the agent's text lacks "{" or lacks "}", the text is returned
\* as the answer with no citations, confidence 0.7 and the diagnostic that
\* no JSON structure was found.
C4_NoBracesFallback ==
    (Answered /\ calls.parse = 1
       /\ ("{" \notin Range(result_str) \/ "}" \notin Range(result_str))) =>
        /\ response.answer = result_str
        /\ response.document_ids = <<>>
        /\ response.sources = <<>>
        /\ response.pages = <<>>
        /\ response.confidence_score = 7
        /\ response.additional_info = JStr(<<"keine JSON-Struktur gefunden">>)

\* C5: every page returned is a page of a FOUND_PAGES line the search tool
\* wrote during the same question.
C5_PagesSubsetOfFound ==
    Answered => Range(response.pages) \subseteq found_pages

\* A search wrote FOUND_PAGES: [4], the agent's text is an object followed
\* by that marker, and the answer was returned.
C5_Witness ==
    /\ Answered
    /\ ParsesAsObject
    /\ found_pages = {4}
    /\ MarkerArray = <<4>>
    /\ outcome = "returned"

\* C6: the confidence_score returned lies in [0.0, 1.0].
C6_ConfidenceInUnitRange ==
    Answered => (response.confidence_score >= 0 /\ response.confidence_score <= 10)

\* C7: on parse success document_ids and sources are the parsed lists or
\* [], confidence_score is the parsed number or 0.8, context_used is
\* has_history when the model gave no boolean, additional_info is passed
\* through.
C7_FieldTypesValidated ==
    (Answered /\ ParsesAsObject) =>
        /\ response.document_ids = IF ParsedObject["document_ids"].t = "list"
                                   THEN ParsedObject["document_ids"].l ELSE <<>>
        /\ response.sources = IF ParsedObject["sources"].t = "list"
                              THEN ParsedObject["sources"].l ELSE <<>>
        /\ response.confidence_score = IF ParsedObject["confidence_score"].t = "num"
                                       THEN ParsedObject["confidence_score"].n ELSE 8
        /\ ParsedObject["context_used"].t # "bool" => response.context_used = has_history
        /\ response.additional_info = IF ParsedObject["additional_info"].t = "absent"
                                      THEN JNull ELSE ParsedObject["additional_info"]

\* The search tool has returned.
ToolReturned == pc = "tool_call" /\ tool.called

\* The ids the filter names: the non-blank parts between its commas.
NamedIds(document_ids) ==
    IF document_ids.type # "str" THEN {}
    ELSE {Strip(part) : part \in Range(Split(document_ids.val))} \ {<<>>}

\* No fragment handed back is of a document the filter names.
NoneNamed(docs, document_ids) ==
    \A j \in 1..Len(docs) :
        ~(docs[j].attrs /\ docs[j].meta_is_dict
          /\ <<MetadataDocId(docs[j], "unknown")>> \in NamedIds(document_ids))

\* C8: a filter that names ids none of which owns a handed-back fragment
\* gives KEINE DOKUMENTE IN GEFILTERTEN IDs, no fragments handed back gives
\* KEINE DOKUMENTE GEFUNDEN, and a filter of separators and whitespace
\* gives what no filter gives.
C8_FilterNoMatchDistinct ==
    (ToolReturned /\ tool.invoked /\ tool.retrieved.kind = "list") =>
        /\ (tool.retrieved.docs # <<>> /\ NamedIds(tool.document_ids) # {}
              /\ NoneNamed(tool.retrieved.docs, tool.document_ids))
           => tool.result.kind = "KEINE DOKUMENTE IN GEFILTERTEN IDs"
        /\ tool.retrieved.docs = <<>> => tool.result.kind = "KEINE DOKUMENTE GEFUNDEN"
        /\ NamedIds(tool.document_ids) = {}
           => tool.result = pdf_search_tool(tool.query, PyStr(<<>>), tool.retrieved)

\* The filter names d3, fragments of other documents were handed back, and
\* the tool said that none is within the filter.
C8_Witness ==
    /\ ToolReturned
    /\ tool.document_ids = PyStr(<<"d3">>)
    /\ Len(tool.retrieved.docs) = 2
    /\ tool.result.kind = "KEINE DOKUMENTE IN GEFILTERTEN IDs"

\* The texts the tool returns.
ToolTexts ==
    {"FEHLER: Suchanfrage ist leer oder ungueltig", "FEHLER BEI PINECONE-SUCHE",
     "FEHLER: Pinecone-Antwort ist None", "FEHLER: Unerwarteter Response-Typ",
     "KEINE DOKUMENTE GEFUNDEN", "KEINE DOKUMENTE IN GEFILTERTEN IDs",
     "KEINE RELEVANTEN INHALTE", "ERGEBNIS", "FEHLER BEIM DURCHSUCHEN"}

\* C9: every call of the search tool returns text: a retriever exception,
\* a None, a non-list and an exception raised elsewhere in the tool each
\* end in an error text.
C9_ToolNeverRaises ==
    ToolReturned =>
        /\ tool.result.kind \in ToolTexts
        /\ (tool.invoked /\ tool.retrieved.kind = "raise")
           => tool.result.kind = "FEHLER BEI PINECONE-SUCHE"
        /\ (tool.invoked /\ tool.retrieved.kind = "none")
           => tool.result.kind = "FEHLER: Pinecone-Antwort ist None"
        /\ (tool.invoked /\ tool.retrieved.kind = "nonlist")
           => tool.result.kind = "FEHLER: Unerwarteter Response-Typ"

\* The tool was called with a list as document_ids, whose strip() raises,
\* and returned the error text of its outer handler.
C9_Witness ==
    /\ ToolReturned
    /\ tool.document_ids = PyObj
    /\ ~BlankOrNotString(tool.query)
    /\ tool.result.kind = "FEHLER BEIM DURCHSUCHEN"

\* C10: an empty, whitespace-only or non-string query is answered with the
\* validation error, and neither the retriever nor the adjacency lookup is
\* called.
C10_BlankQueryNoSearch ==
    (ToolReturned /\ BlankOrNotString(tool.query)) =>
        /\ tool.result.kind = "FEHLER: Suchanfrage ist leer oder ungueltig"
        /\ ~tool.invoked
        /\ tool.result.lookups = 0

\* A whitespace-only query was refused.
C10_Witness ==
    /\ ToolReturned
    /\ tool.query = PyStr(<<" ">>)
    /\ tool.result.kind = "FEHLER: Suchanfrage ist leer oder ungueltig"

\* The fragments the loop of lines 320-434 runs over: the retrieved ones, or
\* those the filter kept.
ToolDocs ==
    LET targets == target_doc_ids(tool.document_ids)
    IN IF targets # <<>> THEN filtered_docs(tool.retrieved.docs, targets)
       ELSE tool.retrieved.docs

\* The i-th fragment yields output: the result list grows in its pass.
YieldsOutput(docs, i) ==
    Len(LoopFrom(LoopStart, SubSeq(docs, 1, i), 0).results)
        > Len(LoopFrom(LoopStart, SubSeq(docs, 1, i - 1), 0).results)

RECURSIVE IncludedFrom(_, _)
\* The fragments that yield output, in pipeline order, from the i-th on.
IncludedFrom(docs, i) ==
    IF i > Len(docs) THEN <<>>
    ELSE (IF YieldsOutput(docs, i) THEN <<docs[i]>> ELSE <<>>)
         \o IncludedFrom(docs, i + 1)

\* The fragments included in the tool's output.
IncludedDocs == IncludedFrom(ToolDocs, 1)

\* The pages a fragment's metadata names, in pages or in page_number.
FragmentPages(doc) ==
    IF doc.attrs /\ doc.meta_is_dict
    THEN Range(doc.pages) \cup (IF doc.page_number # 0 THEN {doc.page_number} ELSE {})
    ELSE {}

\* The tool returned a result text with blocks.
ToolResultWritten == ToolReturned /\ tool.result.kind = "ERGEBNIS"

\* C11: the FOUND_PAGES line is the ascending list of the distinct pages of
\* exactly the included fragments: a skipped fragment adds no page, every
\* page of an included fragment is there.
C11_FoundPagesOfIncluded ==
    ToolResultWritten =>
        tool.result.pages =
            SortedSeq(UNION {FragmentPages(IncludedDocs[k]) : k \in 1..Len(IncludedDocs)})

\* The adjacency lookup was made for the fragment and did not raise.
LookupSucceeded(doc) == doc.chunk_id >= 0 /\ doc.adjacent # "raise"

C13_ChunkCounterDense ==
    ToolResultWritten =>
        /\ Len(tool.result.results) = Len(IncludedDocs)
        /\ \A k \in 1..Len(tool.result.results) : tool.result.results[k].chunk = k

\* Two fragments of one document were written: the second carries counter 2
\* and document number 1.
C13_Witness ==
    /\ ToolResultWritten
    /\ Len(tool.result.results) = 2
    /\ tool.result.results[2].chunk = 2
    /\ tool.result.results[2].dok = 1
    /\ tool.result.results[1].dok = 1

\* The overview a setup of this moment would give the namespace's agent.
OverviewNow(key) ==
    documents_overview_for_prompt(
        get_namespace_summary(firebase_available, files[key], "ok"))

\* C14: once an agent is cached for a namespace, every step of the program
\* (upload, deletion, example questions, a later setup, start_bot) keeps
\* the cache entry and the document overview the agent was first set up
\* with.
C14_CachedAgentKept ==
    [][\A key \in NsKeys :
         key \in agents =>
            /\ key \in agents'
            /\ agent_overview'[key] = agent_overview[key]]_vars

\* A later setup returned the cached agent although a document it lists has
\* been deleted since: the overview it carries is not the overview of this
\* moment.
C14_Witness ==
    \E key \in NsKeys :
        /\ last_op.name = "setup_agent"
        /\ last_op.reused
        /\ last_op.ids = agent_overview[key].ids
        /\ agent_overview[key] # OverviewNow(key)
        /\ \E d \in DocIds : d \in agent_overview[key].ids /\ ~files[key][d].present

\* C15: a report of the Overview Tool that read the metadata store lists a
\* document exactly when the store holds the document's metadata at the
\* time of the call, whatever overview the calling agent was cached with.
C15_OverviewToolReadsCurrent ==
    \A key \in NsKeys :
        (last_op.name = "document_overview_tool" /\ last_op.read = "ok") =>
            \A d \in DocIds : d \in last_op.ids <=> files[key][d].present

\* The agent was cached while the store held one document; that document's
\* metadata was deleted and another document added; the report lists the
\* new document and not the deleted one.
C15_Witness ==
    \E key \in NsKeys :
        /\ last_op.name = "document_overview_tool"
        /\ last_op.read = "ok"
        /\ \E d \in DocIds : d \in last_op.ids /\ d \notin agent_overview[key].ids
        /\ \E d \in DocIds : d \notin last_op.ids /\ d \in agent_overview[key].ids

\* The namespace has no document: no vectors and no document metadata.
ZeroDocuments(key) ==
    /\ vectors[key] = {}
    /\ \A d \in DocIds : ~files[key][d].present

\* C16: for a namespace with zero documents, a report of the Overview Tool
\* that read the metadata store is the KEINE DOKUMENTE report, whatever
\* uploads, deletions and example-question generations came before.
C16_ZeroDocumentsReport ==
    \A key \in NsKeys :
        (/\ last_op.name = "document_overview_tool"
         /\ last_op.read = "ok"
         /\ ZeroDocuments(key)) =>
            last_op.kind = "KEINE DOKUMENTE"

\* C19: delete_document answers success exactly when the vector deletion
\* succeeded; the metadata deletion is attempted whenever Firebase is
\* available, whether or not the vector deletion succeeded, and neither
\* its failure nor Firebase being unavailable makes the answer an error.
C19_DeleteStatusFromVectorOnly ==
    last_op.name = "delete_document" =>
        /\ last_op.status = "success" <=> last_op.pinecone_deleted
        /\ last_op.firebase_attempted <=> firebase_available
        /\ last_op.firebase_deleted => last_op.firebase_attempted

\* The vector deletion succeeded, the metadata deletion was attempted and
\* failed, and the answer is success.
C19_Witness ==
    /\ last_op.name = "delete_document"
    /\ last_op.pinecone_deleted
    /\ last_op.firebase_attempted
    /\ ~last_op.firebase_deleted
    /\ last_op.status = "success"

\* C20: after a delete_document whose vector deletion succeeded, neither a
\* get_namespace_summary document list nor a search result of the
\* namespace holds the document, until it is indexed again.
C20_DeletedDocumentGone ==
    \A key \in NsKeys :
        last_op.name \in {"get_namespace_summary", "search"} =>
            last_op.ids \cap deleted[key] = {}

\* C17: a namespace's chat history never holds more than ten entries, and
\* it is the last ten, in their order, of the entries the send_message
\* calls have appended to it (all of them while there are at most ten).
C17_HistoryLastTen ==
    \A key \in ChatKeys :
        /\ Len(chat_history[key]) <= HistoryCap
        /\ chat_history[key] = LastN(appended[key], HistoryCap)

\* More than ten entries were appended: the history holds ten and its
\* oldest entry is no longer the first one appended.
C17_Witness ==
    \E key \in ChatKeys :
        /\ last_op.name = "send_message"
        /\ Len(appended[key]) > HistoryCap
        /\ Len(chat_history[key]) = HistoryCap
        /\ chat_history[key][1] = appended[key][Len(appended[key]) - HistoryCap + 1]
        /\ chat_history[key][1] # appended[key][1]

\* C18: at most one request is between its read of a namespace's history
\* and its update of it; the history it read is still the namespace's
\* history when it updates it; and the history is a list of pairs, each
\* user entry directly followed by the assistant entry of the same request.
C18_HistoryAccessSerialized ==
    /\ Cardinality(InFlight) <= 1
    /\ \A i \in InFlight : requests[i].seen = chat_history[requests[i].namespace.val]
    /\ \A key \in ChatKeys :
          \A j \in 1..Len(chat_history[key]) :
              LET entry == chat_history[key][j]
              IN IF entry.role = "user"
                 THEN /\ j < Len(chat_history[key])
                      /\ chat_history[key][j + 1] = AssistantEntry(entry.content)
                 ELSE /\ j > 1
                      /\ chat_history[key][j - 1] = UserEntry(entry.content)

\* Two requests to the same namespace are open at once: one has read a
\* history that an earlier request filled and has not updated it yet, the
\* other has arrived and waits.
C18_Witness ==
    \E i \in InFlight, j \in Pending :
        /\ requests[j].namespace = requests[i].namespace
        /\ ~InvalidText(requests[j].user_input)
        /\ Len(requests[i].seen) > 0

\* The steps of process_document_full in their order.
PipelineSteps == <<"extract", "process", "index", "store">>

\* C24: process_document_full runs extract, process, index and
\* store-metadata in that order and stops at the first failing step; it
\* answers success only after the document's vectors were indexed, and a
\* call that answers error has written no document metadata.
C24_PipelineStopsAtFirstFailure ==
    [][last_op'.name = "process_document_full" =>
          /\ \E n \in 1..Len(PipelineSteps) : last_op'.steps = SubSeq(PipelineSteps, 1, n)
          /\ last_op'.status \in {"success", "error"}
          /\ last_op'.status = "success" =>
                /\ Len(last_op'.steps) >= 3
                /\ \A key \in NsKeys : last_op'.doc \in vectors'[key]
          /\ last_op'.status = "error" =>
                /\ Len(last_op'.steps) <= 3
                /\ files' = files]_vars

\* A call failed at the indexing step, Firebase being available and the
\* document not yet known to the metadata store: no metadata was written.
C24_Witness ==
    /\ last_op.name = "process_document_full"
    /\ last_op.status = "error"
    /\ last_op.steps = <<"extract", "process", "index">>
    /\ firebase_available
    /\ \A key \in NsKeys : ~files[key][last_op.doc].present

\* C25: the document list of a get_namespace_summary that read the metadata
\* store holds exactly the namespace's document records: every document
\* with metadata, and no other child of the namespace's node.
C25_SummaryListsDocumentsOnly ==
    \A key \in NsKeys :
        (last_op.name = "get_namespace_summary" /\ last_op.read = "ok") =>
            last_op.ids = {d \in DocIds : files[key][d].present}

\* C29: when the read of the metadata store fails, the Overview Tool
\* answers with its FEHLER text and get_namespace_summary with status
\* error, never with the report of a namespace without documents.
C29_FailedReadReportedAsError ==
    /\ (last_op.name = "document_overview_tool" /\ last_op.read = "raise") =>
            last_op.kind = "FEHLER"
    /\ (last_op.name = "get_namespace_summary" /\ last_op.read = "raise") =>
            last_op.status = "error"

\* C28: a send_message call that is refused or whose agent call raises
\* leaves every namespace's chat history as it was; a call that succeeds
\* appends its user entry and its assistant entry to the addressed
\* namespace's history, cuts that history to its last ten entries, and
\* leaves the history of every other namespace as it was.
C28_SendMessageFrame ==
    [][\A i \in 1..MaxRequests :
          (requests[i].pc # "done" /\ requests'[i].pc = "done") =>
             IF last_op'.status = "error"
             THEN chat_history' = chat_history
             ELSE /\ requests[i].namespace.val \in ChatKeys
                  /\ chat_history' =
                       [chat_history EXCEPT
                          ![requests[i].namespace.val] =
                             LastN(@ \o <<UserEntry(i), AssistantEntry(i)>>, HistoryCap)]]_vars

\* The last call succeeded for one namespace while another namespace has a
\* history of its own, filled by earlier calls.
C28_Witness ==
    \E key \in ChatKeys, other \in ChatKeys :
        /\ key # other
        /\ last_op.name = "send_message"
        /\ last_op.status = "success"
        /\ Len(chat_history[key]) > 0
        /\ Len(chat_history[other]) > 0
        /\ chat_history[key][Len(chat_history[key])].content
              > chat_history[other][Len(chat_history[other])].content

\* A step of a successful append_metadata call; the call before it, if
\* last_meta does not change, was the same call on the same record.
AppendMetadataStep ==
    /\ status_update' = status_update
    /\ last_meta'.name = "append_metadata"
    /\ last_meta'.status = "success"

\* C30: append_metadata writes chunk_count, keywords and summary of the one
\* record only; the keywords it leaves are the stored and the supplied ones
\* without duplicates; the record's other fields and the other documents'
\* records stay as they are; and a call repeated with the same arguments
\* changes nothing.
C30_AppendMetadataIdempotent ==
    [][AppendMetadataStep =>
        LET fileID == last_meta'.fileID
            before == metadata[fileID]
            after == metadata'[fileID]
        IN /\ \A d \in DocIds \ {fileID} : metadata'[d] = metadata[d]
           /\ after.status = before.status
           /\ after.chunk_count \in ChunkCounts /\ after.summary \in Summaries
           /\ Range(after.keywords) = Range(before.keywords) \cup Range(last_meta'.keywords)
           /\ Cardinality(Range(after.keywords)) = Len(after.keywords)
           /\ (last_meta' = last_meta => metadata' = metadata)]_vars

\* C30 without its last part: a repeated call leaves the same keywords,
\* in whatever order.
C30_AppendMetadataUnion ==
    [][AppendMetadataStep =>
        LET fileID == last_meta'.fileID
            before == metadata[fileID]
            after == metadata'[fileID]
        IN /\ \A d \in DocIds \ {fileID} : metadata'[d] = metadata[d]
           /\ after.status = before.status
           /\ after.chunk_count \in ChunkCounts /\ after.summary \in Summaries
           /\ Range(after.keywords) = Range(before.keywords) \cup Range(last_meta'.keywords)
           /\ Cardinality(Range(after.keywords)) = Len(after.keywords)
           /\ (last_meta' = last_meta =>
                 metadata' = [metadata EXCEPT ![fileID].keywords = after.keywords])]_vars

\* A successful append_metadata left two keywords on a record that has a
\* status.
C30_Witness ==
    /\ last_meta.name = "append_metadata" /\ last_meta.status = "success"
    /\ Len(metadata[last_meta.fileID].keywords) = 2
    /\ metadata[last_meta.fileID].status # ""

\* C26: the write of update_document_status changes the keys of status_data
\* in the one record and nothing else, whatever was written or deleted since
\* its read.
C26_StatusUpdateWritesStatusOnly ==
    [][(status_update.pc = "read" /\ status_update'.pc = "idle") =>
        metadata' = [metadata EXCEPT ![status_update.fileID].status =
                                        status_update.status_data]]_vars

\* C22: get_example_questions returns stored question data only in a state
\* where the namespace's generation status is "completed".
C22_DataOnlyWhileCompleted ==
    [][(get_call = "completed" /\ get_call' = "idle" /\ last_task'.has_data) =>
        questions_node.status = "completed"]_vars

\* What holds of C22: the request answers with question data only when the
\* status it read is "completed", and with the status alone (not_found for
\* none) when it read "generating", "error" or none.
C22_ReadStatusGatesQuestions ==
    last_task.name = "get_example_questions" =>
        /\ last_task.has_data => (last_task.status = "success" /\ last_task.seen = "completed")
        /\ last_task.seen = "generating" =>
             (last_task.status = "generating" /\ ~last_task.has_data)
        /\ last_task.seen = "error" => (last_task.status = "error" /\ ~last_task.has_data)
        /\ last_task.seen = "not_found" =>
             (last_task.status = "not_found" /\ ~last_task.has_data)

\* C23: the generation run dispatched by an upload reads the namespace's
\* documents only after the processing task of that upload has finished.
C23_GenerationReadsAfterProcessing ==
    \A r \in RunIds :
        (generation[r].upload /\ generation[r].pc = "answered") =>
            generation[r].after_processing

\* No run of generate_and_store_example_questions is under way.
NoRunInProgress ==
    \A r \in RunIds : generation[r].pc \in {"none", "queued"}

\* C27: with Firebase available, the generation status is not "generating"
\* whenever no run is under way.
C27_NoRunNotGenerating ==
    (firebase_available /\ NoRunInProgress) => questions_node.status # "generating"

=============================================================================
